---- MODULE Spec2Model ----
(***************************************************************************)
(* Model of the time-expression parser (src/time_parser.py, class          *)
(* TimeParser).                                                            *)
(*                                                                         *)
(* Texts are sequences of characters.  An ASCII character is the string    *)
(* holding it; a CJK character is written as its code point ("U904E" is    *)
(* the character 過), since the module is ASCII.  Strings the code builds   *)
(* (bounds, descriptions) are built the way the code builds them, by       *)
(* concatenation and by formatting integers.                               *)
(***************************************************************************)
EXTENDS Integers, Sequences, FiniteSets, TLC

VARIABLES
    relative_patterns,  \* TimeParser.relative_patterns: ordered (pattern, unit) table
    call,               \* the arguments of the call at hand
    op,                 \* "idle", or the operation that has just returned
    result,             \* what that operation returned, or the exception it let out
    handlers            \* the callers sharing the instance: each one's locals

vars == <<relative_patterns, call, op, result, handlers>>

-----------------------------------------------------------------------------
(* Characters *)

GUO  == "U904E"   \* 過
QU   == "U53BB"   \* 去
ZUI  == "U6700"   \* 最
JIN  == "U8FD1"   \* 近
XIAO == "U5C0F"   \* 小
SHI  == "U6642"   \* 時
TIAN == "U5929"   \* 天
ZHOU == "U9031"   \* 週
YUE  == "U6708"   \* 月
NEI  == "U5167"   \* 內
JIN1 == "U4ECA"   \* 今
ZUO  == "U6628"   \* 昨
SHANG == "U4E0A"  \* 上
LONG_S == "U017F" \* the long s, a lower-case letter whose upper case is S

\* the letters str.lower() changes, each with its lower-case form
LowerMap ==
    "A" :> "a" @@ "B" :> "b" @@ "C" :> "c" @@ "D" :> "d" @@ "E" :> "e" @@ "F" :> "f" @@
    "G" :> "g" @@ "H" :> "h" @@ "I" :> "i" @@ "J" :> "j" @@ "K" :> "k" @@ "L" :> "l" @@
    "M" :> "m" @@ "N" :> "n" @@ "O" :> "o" @@ "P" :> "p" @@ "Q" :> "q" @@ "R" :> "r" @@
    "S" :> "s" @@ "T" :> "t" @@ "U" :> "u" @@ "V" :> "v" @@ "W" :> "w" @@ "X" :> "x" @@
    "Y" :> "y" @@ "Z" :> "z"

\* the letters str.lower() changes
UpperLetters == DOMAIN LowerMap

\* str.lower() on one character
LowerChar(c) == IF c \in UpperLetters THEN LowerMap[c] ELSE c

\* str.lower()
Lower(s) == [i \in 1..Len(s) |-> LowerChar(s[i])]

\* the characters str.strip() removes and \s matches
IsSpace(c) == c \in {" ", "\t", "\n"}

\* the characters \d matches
IsDigit(c) == c \in {"0","1","2","3","4","5","6","7","8","9"}

DigitVal(c) ==
    CASE c = "0" -> 0 [] c = "1" -> 1 [] c = "2" -> 2 [] c = "3" -> 3
      [] c = "4" -> 4 [] c = "5" -> 5 [] c = "6" -> 6 [] c = "7" -> 7
      [] c = "8" -> 8 [] c = "9" -> 9

\* str.strip()
RECURSIVE LStrip(_)
LStrip(s) == IF s # <<>> /\ IsSpace(Head(s)) THEN LStrip(Tail(s)) ELSE s
RECURSIVE RStrip(_)
RStrip(s) ==
    IF s # <<>> /\ IsSpace(s[Len(s)]) THEN RStrip(SubSeq(s, 1, Len(s) - 1)) ELSE s
Strip(s) == RStrip(LStrip(s))

\* int() of a string of decimal digits
RECURSIVE ToInt(_)
ToInt(ds) ==
    IF ds = <<>> THEN 0
    ELSE 10 * ToInt(SubSeq(ds, 1, Len(ds) - 1)) + DigitVal(ds[Len(ds)])

\* `sub in s` for strings
Contains(s, sub) ==
    \E i \in 1..(Len(s) - Len(sub) + 1) : SubSeq(s, i, i + Len(sub) - 1) = sub

-----------------------------------------------------------------------------
(* Regular expressions: a pattern is a sequence of alternatives (a|b), an   *)
(* alternative a sequence of tokens: a literal character, \d, \s*, (\d+),   *)
(* or an optional character [c]?.  Matching is re.search with              *)
(* re.IGNORECASE: leftmost start, alternatives in order, greedy with       *)
(* backtracking.                                                           *)

Lit(c) == [t |-> "lit", c |-> c]
Opt(c) == [t |-> "opt", c |-> c]
Ws     == [t |-> "ws",  c |-> ""]
Num    == [t |-> "num", c |-> ""]
Dig    == [t |-> "dig", c |-> ""]

Lits(s) == [i \in 1..Len(s) |-> Lit(s[i])]

NoMatch == [ok |-> FALSE, grp |-> <<>>]

\* a comparison that tells capital and small letters apart
CharEqIC_case_sensitive(p, c) == p = c

\* the character re.IGNORECASE compares by: the lower-case form, the long s
\* counting as s
FoldChar(c) == IF c = LONG_S THEN "s" ELSE LowerChar(c)

\* re.IGNORECASE comparison of a pattern character with a text character
CharEqIC(p, c) == FoldChar(p) = FoldChar(c)

RECURSIVE RunLen(_, _, _)
\* length of the longest run of whitespace (ws = TRUE) or digits from text[i]
RunLen(text, i, ws) ==
    IF i <= Len(text) /\ (IF ws THEN IsSpace(text[i]) ELSE IsDigit(text[i]))
    THEN 1 + RunLen(text, i + 1, ws)
    ELSE 0

RECURSIVE MatchFrom(_, _, _, _)
RECURSIVE MatchRun(_, _, _, _, _, _)

\* match tokens toks[k..] at text[i..]; grp is group 1 when the match has one
MatchFrom(toks, k, text, i) ==
    IF k > Len(toks) THEN [ok |-> TRUE, grp |-> <<>>]
    ELSE LET tk == toks[k] IN
      CASE tk.t = "lit" ->
             IF i <= Len(text) /\ CharEqIC(tk.c, text[i])
             THEN MatchFrom(toks, k + 1, text, i + 1)
             ELSE NoMatch
        [] tk.t = "opt" ->
             IF i <= Len(text) /\ CharEqIC(tk.c, text[i])
             THEN LET r == MatchFrom(toks, k + 1, text, i + 1) IN
                  IF r.ok THEN r ELSE MatchFrom(toks, k + 1, text, i)
             ELSE MatchFrom(toks, k + 1, text, i)
        [] tk.t = "dig" ->
             IF i <= Len(text) /\ IsDigit(text[i])
             THEN MatchFrom(toks, k + 1, text, i + 1)
             ELSE NoMatch
        [] tk.t = "ws" ->
             MatchRun(toks, k, text, i, RunLen(text, i, TRUE), 0)
        [] tk.t = "num" ->
             MatchRun(toks, k, text, i, RunLen(text, i, FALSE), 1)

\* a greedy repetition taking n characters, giving back one at a time down to min
MatchRun(toks, k, text, i, n, min) ==
    IF n < min THEN NoMatch
    ELSE LET r == MatchFrom(toks, k + 1, text, i + n) IN
         IF r.ok
         THEN IF toks[k].t = "num"
              THEN [ok |-> TRUE, grp |-> SubSeq(text, i, i + n - 1)]
              ELSE r
         ELSE MatchRun(toks, k, text, i, n - 1, min)

RECURSIVE MatchAlt(_, _, _, _)
\* the first alternative of pat[a..] that matches at text[i..]
MatchAlt(pat, a, text, i) ==
    IF a > Len(pat) THEN NoMatch
    ELSE LET r == MatchFrom(pat[a], 1, text, i) IN
         IF r.ok THEN r ELSE MatchAlt(pat, a + 1, text, i)

RECURSIVE SearchFrom(_, _, _)
SearchFrom(pat, text, i) ==
    IF i > Len(text) + 1 THEN NoMatch
    ELSE LET r == MatchAlt(pat, 1, text, i) IN
         IF r.ok THEN r ELSE SearchFrom(pat, text, i + 1)

\* re.search(pattern, text, re.IGNORECASE)
Search(pat, text) == SearchFrom(pat, text, 1)

-----------------------------------------------------------------------------
(* TimeParser.__init__: the pattern table, in insertion order.  A key is the  *)
(* regular expression as written, its CJK characters as code points.         *)

Entry(p, u) == [pattern |-> p, unit |-> u]

InitPatterns ==
    << Entry("U904EU53BB\\s*(\\d+)\\s*U5C0FU6642", "hours"),
       Entry("U6700U8FD1\\s*(\\d+)\\s*U5C0FU6642", "hours"),
       Entry("(\\d+)\\s*U5C0FU6642U5167", "hours"),
       Entry("(\\d+)\\s*h", "hours"),
       Entry("(\\d+)\\s*hour[s]?", "hours"),
       Entry("U904EU53BB\\s*(\\d+)\\s*U5929", "days"),
       Entry("U6700U8FD1\\s*(\\d+)\\s*U5929", "days"),
       Entry("(\\d+)\\s*U5929U5167", "days"),
       Entry("(\\d+)\\s*d", "days"),
       Entry("(\\d+)\\s*day[s]?", "days"),
       Entry("U904EU53BB\\s*(\\d+)\\s*U9031", "weeks"),
       Entry("U6700U8FD1\\s*(\\d+)\\s*U9031", "weeks"),
       Entry("(\\d+)\\s*U9031U5167", "weeks"),
       Entry("(\\d+)\\s*w", "weeks"),
       Entry("(\\d+)\\s*week[s]?", "weeks"),
       Entry("U904EU53BB\\s*(\\d+)\\s*U6708", "months"),
       Entry("U6700U8FD1\\s*(\\d+)\\s*U6708", "months"),
       Entry("(\\d+)\\s*U6708U5167", "months"),
       Entry("(\\d+)\\s*M", "months"),
       Entry("(\\d+)\\s*month[s]?", "months"),
       Entry("U4ECAU5929|today", "today"),
       Entry("U6628U5929|yesterday", "yesterday"),
       Entry("U4E0AU9031|last\\s*week", "last_week"),
       Entry("U4E0AU6708|last\\s*month", "last_month") >>

Qualified(q, u) == <<Lits(q) \o <<Ws, Num, Ws>> \o Lits(u)>>
Suffix(u)       == <<<<Num, Ws>> \o Lits(u)>>
Plural(u)       == <<<<Num, Ws>> \o Lits(u) \o <<Opt("s")>>>>

\* re.compile: what each regular expression of the table denotes
Compiled ==
    "U904EU53BB\\s*(\\d+)\\s*U5C0FU6642" :>
        Qualified(<<GUO, QU>>, <<XIAO, SHI>>) @@
    "U6700U8FD1\\s*(\\d+)\\s*U5C0FU6642" :>
        Qualified(<<ZUI, JIN>>, <<XIAO, SHI>>) @@
    "(\\d+)\\s*U5C0FU6642U5167" :>
        Suffix(<<XIAO, SHI, NEI>>) @@
    "(\\d+)\\s*h" :>
        Suffix(<<"h">>) @@
    "(\\d+)\\s*hour[s]?" :>
        Plural(<<"h", "o", "u", "r">>) @@
    "U904EU53BB\\s*(\\d+)\\s*U5929" :>
        Qualified(<<GUO, QU>>, <<TIAN>>) @@
    "U6700U8FD1\\s*(\\d+)\\s*U5929" :>
        Qualified(<<ZUI, JIN>>, <<TIAN>>) @@
    "(\\d+)\\s*U5929U5167" :>
        Suffix(<<TIAN, NEI>>) @@
    "(\\d+)\\s*d" :>
        Suffix(<<"d">>) @@
    "(\\d+)\\s*day[s]?" :>
        Plural(<<"d", "a", "y">>) @@
    "U904EU53BB\\s*(\\d+)\\s*U9031" :>
        Qualified(<<GUO, QU>>, <<ZHOU>>) @@
    "U6700U8FD1\\s*(\\d+)\\s*U9031" :>
        Qualified(<<ZUI, JIN>>, <<ZHOU>>) @@
    "(\\d+)\\s*U9031U5167" :>
        Suffix(<<ZHOU, NEI>>) @@
    "(\\d+)\\s*w" :>
        Suffix(<<"w">>) @@
    "(\\d+)\\s*week[s]?" :>
        Plural(<<"w", "e", "e", "k">>) @@
    "U904EU53BB\\s*(\\d+)\\s*U6708" :>
        Qualified(<<GUO, QU>>, <<YUE>>) @@
    "U6700U8FD1\\s*(\\d+)\\s*U6708" :>
        Qualified(<<ZUI, JIN>>, <<YUE>>) @@
    "(\\d+)\\s*U6708U5167" :>
        Suffix(<<YUE, NEI>>) @@
    "(\\d+)\\s*M" :>
        Suffix(<<"M">>) @@
    "(\\d+)\\s*month[s]?" :>
        Plural(<<"m", "o", "n", "t", "h">>) @@
    "U4ECAU5929|today" :>
        <<Lits(<<JIN1, TIAN>>), Lits(<<"t", "o", "d", "a", "y">>)>> @@
    "U6628U5929|yesterday" :>
        <<Lits(<<ZUO, TIAN>>), Lits(<<"y", "e", "s", "t", "e", "r", "d", "a", "y">>)>> @@
    "U4E0AU9031|last\\s*week" :>
        <<Lits(<<SHANG, ZHOU>>), Lits(<<"l", "a", "s", "t">>) \o <<Ws>> \o Lits(<<"w", "e", "e", "k">>)>> @@
    "U4E0AU6708|last\\s*month" :>
        <<Lits(<<SHANG, YUE>>), Lits(<<"l", "a", "s", "t">>) \o <<Ws>> \o Lits(<<"m", "o", "n", "t", "h">>)>>

\* re.search(pattern, text, re.IGNORECASE) for a pattern given as written
SearchRe(src, text) == Search(Compiled[src], text)

-----------------------------------------------------------------------------
(* Values *)

None    == <<>>            \* Python's None, for an Optional result
Some(v) == <<v>>

\* an exception of class e on its way up the call stack
Raise(e)   == <<"raise", e>>
IsRaise(v) == Len(v) = 2

\* the classes `except Exception` catches, among those the parser can meet
ExceptionClasses == {"ValueError", "AttributeError", "TypeError"}

\* an argument that is not a str, written as its type: None has no strip()
\* (AttributeError), bytes has one but strptime refuses it (TypeError)
NoneType == <<"NoneType">>
BytesType == <<"bytes">>
NonStrArgs == {NoneType, BytesType}

TimeRange(g, l, d) == [gte |-> g, lte |-> l, description |-> d]

NumericUnits == {"hours", "days", "weeks", "months"}
NamedUnits   == {"today", "yesterday", "last_week", "last_month"}

-----------------------------------------------------------------------------
(* TimeParser._convert_to_opensearch_relative *)

unit_map(unit) ==
    CASE unit = "hours"  -> "h"
      [] unit = "days"   -> "d"
      [] unit = "weeks"  -> "w"
      [] unit = "months" -> "M"
      [] OTHER           -> "d"

\* the unit letter taken from unit_map alone: the weeks and months folding left out
convert_without_folding(number0, unit) ==
    TimeRange("now-" \o ToString(number0) \o unit_map(unit), "now",
              "U904EU53BB" \o ToString(number0))

\* hours folded into days as well (every unit emitted as days)
convert_all_as_days(number0, unit) ==
    LET number ==
            IF unit = "weeks" THEN number0 * 7
            ELSE IF unit = "months" THEN number0 * 30
            ELSE number0
    IN  TimeRange("now-" \o ToString(number) \o "d", "now",
                  "U904EU53BB" \o ToString(number))

\* months folded as four weeks (28 days) instead of 30 days
convert_month_as_28_days(number0, unit) ==
    LET number ==
            IF unit = "weeks" THEN number0 * 7
            ELSE IF unit = "months" THEN number0 * 28
            ELSE number0
    IN  TimeRange("now-" \o ToString(number) \o
                      (IF unit \in {"weeks", "months"} THEN "d" ELSE unit_map(unit)),
                  "now", "U904EU53BB" \o ToString(number0))

\* the description written from the folded day count and the emitted unit
convert_description_folded(number0, unit) ==
    LET number ==
            IF unit = "weeks" THEN number0 * 7
            ELSE IF unit = "months" THEN number0 * 30
            ELSE number0
        opensearch_unit ==
            IF unit \in {"weeks", "months"} THEN "d" ELSE unit_map(unit)
        description ==
            IF unit = "hours" THEN "U904EU53BB" \o ToString(number) \o "U5C0FU6642"
            ELSE "U904EU53BB" \o ToString(number) \o "U5929"
    IN  TimeRange("now-" \o ToString(number) \o opensearch_unit, "now", description)

_convert_to_opensearch_relative(number0, unit) ==
    LET number ==
            IF unit = "weeks" THEN number0 * 7
            ELSE IF unit = "months" THEN number0 * 30
            ELSE number0
        opensearch_unit ==
            IF unit \in {"weeks", "months"} THEN "d" ELSE unit_map(unit)
        description ==
            CASE unit = "hours"  -> "U904EU53BB" \o ToString(number) \o "U5C0FU6642"
              [] unit = "days"   -> "U904EU53BB" \o ToString(number) \o "U5929"
              [] unit = "weeks"  -> "U904EU53BB" \o ToString(number \div 7) \o "U9031"
              [] unit = "months" -> "U904EU53BB" \o ToString(number \div 30) \o "U500BU6708"
              [] OTHER           -> "U904EU53BB" \o ToString(number) \o opensearch_unit
    IN  TimeRange("now-" \o ToString(number) \o opensearch_unit, "now", description)

-----------------------------------------------------------------------------
(* TimeParser.parse_relative_time *)

TODAY_RANGE      == TimeRange("now/d", "now", "U4ECAU5929")
YESTERDAY_RANGE  == TimeRange("now-1d/d", "now-1d/d+1d", "U6628U5929")
LAST_WEEK_RANGE  == TimeRange("now-7d", "now", "U904EU53BBU4E00U9031")
LAST_MONTH_RANGE == TimeRange("now-30d", "now", "U904EU53BBU4E00U500BU6708")

KW_TODAY      == {<<JIN1, TIAN>>, <<"t","o","d","a","y">>}
KW_YESTERDAY  == {<<ZUO, TIAN>>, <<"y","e","s","t","e","r","d","a","y">>}
KW_LAST_WEEK  == {<<SHANG, ZHOU>>, <<"l","a","s","t"," ","w","e","e","k">>}
KW_LAST_MONTH == {<<SHANG, YUE>>, <<"l","a","s","t"," ","m","o","n","t","h">>}

\* any(pattern in text for pattern in [...])
AnyIn(kws, text) == \E kw \in kws : Contains(text, kw)

\* the bare suffix forms (digits and one unit letter) of the table
BareSuffixPatterns ==
    {"(\\d+)\\s*h", "(\\d+)\\s*d", "(\\d+)\\s*w", "(\\d+)\\s*M"}

RECURSIVE ScanPatterns_bare_first(_, _, _)
\* the table scanned with the bare suffix forms ahead of every other pattern
ScanPatterns_bare_first(pats, k, text) ==
    LET IsBare(e) == e.pattern \in BareSuffixPatterns
        NotBare(e) == ~IsBare(e)
        order == SelectSeq(pats, IsBare) \o SelectSeq(pats, NotBare)
    IN  IF k > Len(order) THEN None
        ELSE LET m == SearchRe(order[k].pattern, text) IN
             IF m.ok /\ order[k].unit \notin NamedUnits /\ m.grp # <<>>
             THEN Some(_convert_to_opensearch_relative(ToInt(m.grp), order[k].unit))
             ELSE ScanPatterns_bare_first(pats, k + 1, text)

RECURSIVE ScanPatterns_days_first(_, _, _)
\* a table that lists the days patterns before all others
ScanPatterns_days_first(pats, k, text) ==
    LET IsDays(e) == e.unit = "days"
        NotDays(e) == ~IsDays(e)
        order == SelectSeq(pats, IsDays) \o SelectSeq(pats, NotDays)
    IN  IF k > Len(order) THEN None
        ELSE LET m == SearchRe(order[k].pattern, text) IN
             IF m.ok /\ order[k].unit \notin NamedUnits /\ m.grp # <<>>
             THEN Some(_convert_to_opensearch_relative(ToInt(m.grp), order[k].unit))
             ELSE ScanPatterns_days_first(pats, k + 1, text)

RECURSIVE ScanPatterns(_, _, _)
\* the for loop over self.relative_patterns.items(), from entry k on
ScanPatterns(pats, k, text) ==
    IF k > Len(pats) THEN None
    ELSE LET m == SearchRe(pats[k].pattern, text) IN
         IF m.ok
         THEN IF pats[k].unit \in NamedUnits
              THEN ScanPatterns(pats, k + 1, text)
              ELSE IF m.grp = <<>>
                   THEN ScanPatterns(pats, k + 1, text)    \* IndexError
                   ELSE Some(_convert_to_opensearch_relative(ToInt(m.grp),
                                                             pats[k].unit))
         ELSE ScanPatterns(pats, k + 1, text)

\* yesterday closed at "now" like the other named periods
NamedPeriodCheck_yesterday_to_now(text, otherwise) ==
    IF AnyIn(KW_TODAY, text) THEN Some(TODAY_RANGE)
    ELSE IF AnyIn(KW_YESTERDAY, text)
         THEN Some(TimeRange("now-1d/d", "now", "U6628U5929"))
    ELSE IF AnyIn(KW_LAST_WEEK, text) THEN Some(LAST_WEEK_RANGE)
    ELSE IF AnyIn(KW_LAST_MONTH, text) THEN Some(LAST_MONTH_RANGE)
    ELSE otherwise

\* last week and last month written with the units the engine also has,
\* one week and one month
NamedPeriodCheck_week_and_month_units(text, otherwise) ==
    IF AnyIn(KW_TODAY, text) THEN Some(TODAY_RANGE)
    ELSE IF AnyIn(KW_YESTERDAY, text) THEN Some(YESTERDAY_RANGE)
    ELSE IF AnyIn(KW_LAST_WEEK, text)
         THEN Some(TimeRange("now-1w", "now", "U904EU53BBU4E00U9031"))
    ELSE IF AnyIn(KW_LAST_MONTH, text)
         THEN Some(TimeRange("now-1M", "now", "U904EU53BBU4E00U500BU6708"))
    ELSE otherwise

NamedPeriodCheck(text, otherwise) ==
    IF AnyIn(KW_TODAY, text) THEN Some(TODAY_RANGE)
    ELSE IF AnyIn(KW_YESTERDAY, text) THEN Some(YESTERDAY_RANGE)
    ELSE IF AnyIn(KW_LAST_WEEK, text) THEN Some(LAST_WEEK_RANGE)
    ELSE IF AnyIn(KW_LAST_MONTH, text) THEN Some(LAST_MONTH_RANGE)
    ELSE otherwise

\* the numeric scan run before the named-period check
parse_relative_time_numeric_first(text0) ==
    LET text == Strip(Lower(text0))
        scanned == ScanPatterns(relative_patterns, 1, text)
    IN  IF scanned # None THEN scanned ELSE NamedPeriodCheck(text, None)

\* the text taken as written, without text.lower()
parse_relative_time_as_written(text0) ==
    LET text == Strip(text0) IN
    NamedPeriodCheck(text, ScanPatterns(relative_patterns, 1, text))

parse_relative_time(text0) ==
    LET text == Strip(Lower(text0)) IN
    NamedPeriodCheck(text, ScanPatterns(relative_patterns, 1, text))

-----------------------------------------------------------------------------
(* TimeParser.analyze_time_query *)

\* \d{4}-\d{2}-\d{2}, \d{4}/\d{2}/\d{2}, \d{2}-\d{2}, \d{2}/\d{2}
absolute_indicators ==
    << <<<<Dig, Dig, Dig, Dig, Lit("-"), Dig, Dig, Lit("-"), Dig, Dig>>>>,
       <<<<Dig, Dig, Dig, Dig, Lit("/"), Dig, Dig, Lit("/"), Dig, Dig>>>>,
       <<<<Dig, Dig, Lit("-"), Dig, Dig>>>>,
       <<<<Dig, Dig, Lit("/"), Dig, Dig>>>> >>

SUGGEST_FULL_RANGE ==
    "U6AA2U6E2CU5230U65E5U671FU683CU5F0FUFF0CU8ACBU63D0U4F9BU5B8CU6574U7684U6642U9593U5340U9593UFF08U958BU59CBU6642U9593U548CU7D50U675FU6642U9593UFF09"
SUGGEST_RELATIVE ==
    "U53EFU4EE5U4F7FU7528U76F8U5C0DU6642U9593UFF1A'U904EU53BB24U5C0FU6642'U3001'U904EU53BB7U5929'U3001'U6628U5929'U7B49"
SUGGEST_ABSOLUTE ==
    "U6216U6307U5B9AU7D55U5C0DU6642U9593U5340U9593UFF1A'2025-07-01 U5230 2025-07-10'"

Analysis(h, r, s, t) == [has_time |-> h, time_range |-> r, suggestions |-> s, type |-> t]

\* only the four-digit-year indicators scanned
HasAbsoluteIndicator_year_only(query) ==
    \E k \in 1..2 : Search(absolute_indicators[k], query).ok

\* the loop over absolute_indicators, with its break: re.search(pattern, query)
\* on the query as given (the patterns hold digits, "-" and "/" only, which
\* have no letter case)
HasAbsoluteIndicator(query) ==
    \E k \in 1..Len(absolute_indicators) : Search(absolute_indicators[k], query).ok

\* the absolute-indicator scan run before the relative classification
analyze_time_query_absolute_first(query) ==
    LET relative_result == parse_relative_time(query) IN
    IF HasAbsoluteIndicator(query)
    THEN Analysis(FALSE, None, <<SUGGEST_FULL_RANGE>>, "absolute")
    ELSE IF relative_result # None
         THEN Analysis(TRUE, relative_result, <<>>, "relative")
         ELSE Analysis(FALSE, None, <<SUGGEST_RELATIVE, SUGGEST_ABSOLUTE>>, "None")

\* no early return: the relative result falls through to the suggestions
analyze_time_query_no_early_return(query) ==
    LET relative_result == parse_relative_time(query) IN
    IF HasAbsoluteIndicator(query)
    THEN Analysis(relative_result # None, relative_result, <<SUGGEST_FULL_RANGE>>,
                  "absolute")
    ELSE IF relative_result # None
         THEN Analysis(TRUE, relative_result, <<>>, "relative")
         ELSE Analysis(FALSE, None, <<SUGGEST_RELATIVE, SUGGEST_ABSOLUTE>>, "None")

\* the fallback list holding the relative hint only
analyze_time_query_one_hint(query) ==
    LET relative_result == parse_relative_time(query) IN
    IF relative_result # None
    THEN Analysis(TRUE, relative_result, <<>>, "relative")
    ELSE IF HasAbsoluteIndicator(query)
         THEN Analysis(FALSE, None, <<SUGGEST_FULL_RANGE>>, "absolute")
         ELSE Analysis(FALSE, None, <<SUGGEST_RELATIVE>>, "None")

\* a date-like query reported as a found time expression
analyze_time_query_absolute_has_time(query) ==
    LET relative_result == parse_relative_time(query) IN
    IF relative_result # None
    THEN Analysis(TRUE, relative_result, <<>>, "relative")
    ELSE IF HasAbsoluteIndicator(query)
         THEN Analysis(TRUE, None, <<SUGGEST_FULL_RANGE>>, "absolute")
         ELSE Analysis(FALSE, None, <<SUGGEST_RELATIVE, SUGGEST_ABSOLUTE>>, "None")

analyze_time_query(query) ==
    LET relative_result == parse_relative_time(query) IN
    IF relative_result # None
    THEN Analysis(TRUE, relative_result, <<>>, "relative")
    ELSE IF HasAbsoluteIndicator(query)
         THEN Analysis(FALSE, None, <<SUGGEST_FULL_RANGE>>, "absolute")
         ELSE Analysis(FALSE, None, <<SUGGEST_RELATIVE, SUGGEST_ABSOLUTE>>, "None")

-----------------------------------------------------------------------------
(* TimeParser._parse_datetime: datetime.strptime over the ordered formats.  *)
(* A format is a sequence of directives ("Y", "m", "d", "H", "M", "S") and  *)
(* literal characters; a blank in a format matches one or more blanks.  A   *)
(* directive takes the first alternative of its pattern that matches:       *)
(*   Y  \d\d\d\d                      H  2[0-3] | [0-1]\d | \d              *)
(*   m  1[0-2] | 0[1-9] | [1-9]       M  [0-5]\d | \d                       *)
(*   d  3[01] | [12]\d | 0[1-9] | [1-9] | " "[1-9]                          *)
(*   S  6[01] | [0-5]\d | \d                                                *)

formats ==
    << <<"Y","-","m","-","d"," ","H",":","M",":","S">>,
       <<"Y","-","m","-","d"," ","H",":","M">>,
       <<"Y","-","m","-","d">>,
       <<"Y","/","m","/","d"," ","H",":","M",":","S">>,
       <<"Y","/","m","/","d"," ","H",":","M">>,
       <<"Y","/","m","/","d">>,
       <<"m","-","d"," ","H",":","M">>,
       <<"m","/","d"," ","H",":","M">>,
       <<"m","-","d">>,
       <<"m","/","d">> >>

Directives == {"Y", "m", "d", "H", "M", "S"}

DigitAt(s, i) == i <= Len(s) /\ IsDigit(s[i])
InAt(s, i, cs) == i <= Len(s) /\ s[i] \in cs

\* the number of characters directive f takes at s[i..], 0 when it does not match
FieldLen(f, s, i) ==
    CASE f = "Y" ->
           IF \A j \in i..(i + 3) : DigitAt(s, j) THEN 4 ELSE 0
      [] f = "m" ->
           IF InAt(s, i, {"1"}) /\ InAt(s, i + 1, {"0","1","2"}) THEN 2
           ELSE IF InAt(s, i, {"0"}) /\ DigitAt(s, i + 1) /\ s[i + 1] # "0" THEN 2
           ELSE IF DigitAt(s, i) /\ s[i] # "0" THEN 1
           ELSE 0
      [] f = "d" ->
           IF InAt(s, i, {"3"}) /\ InAt(s, i + 1, {"0","1"}) THEN 2
           ELSE IF InAt(s, i, {"1","2"}) /\ DigitAt(s, i + 1) THEN 2
           ELSE IF InAt(s, i, {"0"}) /\ DigitAt(s, i + 1) /\ s[i + 1] # "0" THEN 2
           ELSE IF DigitAt(s, i) /\ s[i] # "0" THEN 1
           ELSE IF InAt(s, i, {" "}) /\ DigitAt(s, i + 1) /\ s[i + 1] # "0" THEN 2
           ELSE 0
      [] f = "H" ->
           IF InAt(s, i, {"2"}) /\ InAt(s, i + 1, {"0","1","2","3"}) THEN 2
           ELSE IF InAt(s, i, {"0","1"}) /\ DigitAt(s, i + 1) THEN 2
           ELSE IF DigitAt(s, i) THEN 1
           ELSE 0
      [] f = "M" ->
           IF InAt(s, i, {"0","1","2","3","4","5"}) /\ DigitAt(s, i + 1) THEN 2
           ELSE IF DigitAt(s, i) THEN 1
           ELSE 0
      [] f = "S" ->
           IF InAt(s, i, {"6"}) /\ InAt(s, i + 1, {"0","1"}) THEN 2
           ELSE IF InAt(s, i, {"0","1","2","3","4","5"}) /\ DigitAt(s, i + 1) THEN 2
           ELSE IF DigitAt(s, i) THEN 1
           ELSE 0

\* int() of the characters a directive took (the day's leading blank dropped)
FieldVal(s, i, n) == ToInt(LStrip(SubSeq(s, i, i + n - 1)))

\* what strptime starts from: 1900-01-01 00:00:00
DefaultFields == [Y |-> 1900, m |-> 1, d |-> 1, H |-> 0, M |-> 0, S |-> 0]

NoDate == [ok |-> FALSE, dt |-> DefaultFields]

RECURSIVE StrpFrom(_, _, _, _, _)
\* match fmt[k..] at s[i..], the fields found so far in acc; the whole of s
\* must be taken ("unconverted data remains" otherwise)
StrpFrom(fmt, k, s, i, acc) ==
    IF k > Len(fmt)
    THEN IF i = Len(s) + 1 THEN [ok |-> TRUE, dt |-> acc] ELSE NoDate
    ELSE LET f == fmt[k] IN
         IF f \in Directives
         THEN LET n == FieldLen(f, s, i) IN
              IF n = 0 THEN NoDate
              ELSE StrpFrom(fmt, k + 1, s, i + n,
                            [acc EXCEPT ![f] = FieldVal(s, i, n)])
         ELSE IF f = " "
         THEN LET n == RunLen(s, i, TRUE) IN
              IF n = 0 THEN NoDate ELSE StrpFrom(fmt, k + 1, s, i + n, acc)
         ELSE IF i <= Len(s) /\ s[i] = f
              THEN StrpFrom(fmt, k + 1, s, i + 1, acc)
              ELSE NoDate

IsLeap(y) == (y % 4 = 0) /\ ((y % 100 # 0) \/ (y % 400 = 0))

DaysInMonth(y, m) ==
    IF m = 2 THEN (IF IsLeap(y) THEN 29 ELSE 28)
    ELSE IF m \in {4, 6, 9, 11} THEN 30
    ELSE 31

\* the fields the datetime constructor accepts (ValueError otherwise)
ValidDatetime(dt) ==
    /\ dt.Y >= 1 /\ dt.Y <= 9999
    /\ dt.m >= 1 /\ dt.m <= 12
    /\ dt.d >= 1 /\ dt.d <= DaysInMonth(dt.Y, dt.m)
    /\ dt.H <= 23 /\ dt.M <= 59 /\ dt.S <= 59

\* datetime.strptime(time_str, fmt): ok = FALSE is ValueError
strptime(time_str, fmt) ==
    LET r == StrpFrom(fmt, 1, time_str, 1, DefaultFields) IN
    IF r.ok /\ ValidDatetime(r.dt) THEN r ELSE NoDate

RECURSIVE TryFormats_year_by_format(_, _, _)
\* the current year given only to a string parsed by a format without %Y
TryFormats_year_by_format(time_str, k, now_year) ==
    IF k > Len(formats) THEN None
    ELSE LET r == strptime(time_str, formats[k]) IN
         IF r.ok
         THEN Some(IF formats[k][1] # "Y" THEN [r.dt EXCEPT !.Y = now_year] ELSE r.dt)
         ELSE TryFormats_year_by_format(time_str, k + 1, now_year)

RECURSIVE TryFormats(_, _, _)
\* the for loop over formats, from format k on; now_year is datetime.now().year
TryFormats(time_str, k, now_year) ==
    IF k > Len(formats) THEN None
    ELSE LET r == strptime(time_str, formats[k]) IN
         IF r.ok
         THEN Some(IF r.dt.Y = 1900 THEN [r.dt EXCEPT !.Y = now_year] ELSE r.dt)
         ELSE TryFormats(time_str, k + 1, now_year)

\* time_str.strip() and strptime raise on an argument that is not a str;
\* the loop catches ValueError only
_parse_datetime(time_str, now_year) ==
    IF time_str = NoneType THEN Raise("AttributeError")
    ELSE IF time_str = BytesType THEN Raise("TypeError")
    ELSE TryFormats(Strip(time_str), 1, now_year)

-----------------------------------------------------------------------------
(* TimeParser.parse_absolute_time *)

\* an integer zero-padded to w digits
RECURSIVE Pad(_, _)
Pad(n, w) == IF w <= 1 \/ n >= 10 ^ (w - 1) THEN ToString(n)
             ELSE "0" \o Pad(n, w - 1)

\* the instant written as str(dt) writes it, a blank between date and time
isoformat_blank_separator(dt) ==
    Pad(dt.Y, 4) \o "-" \o Pad(dt.m, 2) \o "-" \o Pad(dt.d, 2) \o " " \o
    Pad(dt.H, 2) \o ":" \o Pad(dt.M, 2) \o ":" \o Pad(dt.S, 2)

\* datetime.isoformat()
isoformat(dt) ==
    Pad(dt.Y, 4) \o "-" \o Pad(dt.m, 2) \o "-" \o Pad(dt.d, 2) \o "T" \o
    Pad(dt.H, 2) \o ":" \o Pad(dt.M, 2) \o ":" \o Pad(dt.S, 2)

\* datetime.strftime("%Y-%m-%d %H:%M")
strftime(dt) ==
    Pad(dt.Y, 4) \o "-" \o Pad(dt.m, 2) \o "-" \o Pad(dt.d, 2) \o " " \o
    Pad(dt.H, 2) \o ":" \o Pad(dt.M, 2)

\* the body of the try block: the first exception raised ends it
TryBody(start_time, end_time, now_year) ==
    LET start_dt == _parse_datetime(start_time, now_year)
        end_dt   == _parse_datetime(end_time, now_year)
    IN  IF IsRaise(start_dt) THEN start_dt
        ELSE IF IsRaise(end_dt) THEN end_dt
        ELSE IF start_dt # None /\ end_dt # None
        THEN Some(TimeRange(isoformat(start_dt[1]), isoformat(end_dt[1]),
                            "U5F9E " \o strftime(start_dt[1]) \o " U5230 "
                                \o strftime(end_dt[1])))
        ELSE None

\* a bound that did not parse left open instead of failing the call
parse_absolute_time_partial(start_time, end_time, now_year) ==
    LET start_dt == _parse_datetime(start_time, now_year)
        end_dt   == _parse_datetime(end_time, now_year)
        iso(d)   == IF d = None THEN "" ELSE isoformat(d[1])
        txt(d)   == IF d = None THEN "" ELSE strftime(d[1])
    IN  IF IsRaise(start_dt) \/ IsRaise(end_dt) THEN None
        ELSE IF start_dt # None \/ end_dt # None
        THEN Some(TimeRange(iso(start_dt), iso(end_dt),
                            "U5F9E " \o txt(start_dt) \o " U5230 " \o txt(end_dt)))
        ELSE None

\* one format for the pair: the end is tried only against the format the
\* start matched
parse_absolute_time_shared_format(start_time, end_time, now_year) ==
    LET start_dt == _parse_datetime(start_time, now_year)
        matched  == {k \in 1..Len(formats) :
                        strptime(Strip(start_time), formats[k]).ok}
        end_dt   == IF \E k \in matched : strptime(Strip(end_time), formats[k]).ok
                    THEN _parse_datetime(end_time, now_year) ELSE None
    IN  IF IsRaise(start_dt) \/ end_time \in NonStrArgs THEN None
        ELSE IF start_dt # None /\ end_dt # None
        THEN Some(TimeRange(isoformat(start_dt[1]), isoformat(end_dt[1]),
                            "U5F9E " \o strftime(start_dt[1]) \o " U5230 "
                                \o strftime(end_dt[1])))
        ELSE None

\* the handler written as `except ValueError`: other classes pass through
parse_absolute_time_except_ValueError(start_time, end_time, now_year) ==
    LET body == TryBody(start_time, end_time, now_year) IN
    IF IsRaise(body) /\ body[2] = "ValueError" THEN None ELSE body

\* a range refused when the start is later than the end (bounds of one
\* layout are ordered as their digits are)
parse_absolute_time_ordered_only(start_time, end_time, now_year) ==
    LET body == TryBody(start_time, end_time, now_year)
        Later(a, b) ==
            \E i \in 1..Len(a) :
                /\ SubSeq(a, 1, i - 1) = SubSeq(b, 1, i - 1)
                /\ SubSeq(a, i, i) # SubSeq(b, i, i)
                /\ DigitVal(SubSeq(a, i, i)) > DigitVal(SubSeq(b, i, i))
    IN  IF IsRaise(body) THEN None
        ELSE IF body # None /\ Later(body[1].gte, body[1].lte) THEN None
        ELSE body

\* try: ... except Exception as e: print(...); return None
parse_absolute_time(start_time, end_time, now_year) ==
    LET body == TryBody(start_time, end_time, now_year) IN
    IF IsRaise(body) /\ body[2] \in ExceptionClasses THEN None ELSE body


-----------------------------------------------------------------------------
(* create_time_aware_prompt *)

\* the characters of a text written out as one string
RECURSIVE Join(_)
Join(chars) == IF chars = <<>> THEN "" ELSE Head(chars) \o Join(Tail(chars))

\* the lines "- {suggestion}\n", one per suggestion
RECURSIVE SuggestionLines(_)
SuggestionLines(suggestions) ==
    IF suggestions = <<>> THEN ""
    ELSE "- " \o Head(suggestions) \o "\n" \o SuggestionLines(Tail(suggestions))

\* a prompt that shows the first suggestion only
BuildPrompt_first_suggestion_only(original_query, time_analysis) ==
    LET base_prompt   == "U7528U6236U67E5U8A62: " \o Join(original_query) \o "\n\n"
    IN  IF time_analysis.has_time
        THEN LET time_range == time_analysis.time_range[1] IN
             base_prompt
             \o "U6AA2U6E2CU5230U6642U9593U7BC4U570D: " \o time_range.description \o "\n"
             \o "OpenSearchU6642U9593U683CU5F0F: {'gte': '" \o time_range.gte
                 \o "', 'lte': '" \o time_range.lte \o "'}\n\n"
             \o "U8ACBU4F7FU7528U4E0AU8FF0U6642U9593U7BC4U570DU69CBU5EFAOpenSearchU67E5U8A62U3002\n"
        ELSE IF time_analysis.suggestions # <<>>
             THEN base_prompt \o "U6642U9593U8655U7406U5EFAU8B70:\n"
                  \o "- " \o time_analysis.suggestions[1] \o "\n" \o "\n"
             ELSE base_prompt

\* the body of create_time_aware_prompt after the analysis has returned
BuildPrompt(original_query, time_analysis) ==
    LET base_prompt   == "U7528U6236U67E5U8A62: " \o Join(original_query) \o "\n\n"
    IN  IF time_analysis.has_time
        THEN LET time_range == time_analysis.time_range[1] IN
             base_prompt
             \o "U6AA2U6E2CU5230U6642U9593U7BC4U570D: " \o time_range.description \o "\n"
             \o "OpenSearchU6642U9593U683CU5F0F: {'gte': '" \o time_range.gte
                 \o "', 'lte': '" \o time_range.lte \o "'}\n\n"
             \o "U8ACBU4F7FU7528U4E0AU8FF0U6642U9593U7BC4U570DU69CBU5EFAOpenSearchU67E5U8A62U3002\n"
        ELSE IF time_analysis.suggestions # <<>>
             THEN base_prompt \o "U6642U9593U8655U7406U5EFAU8B70:\n"
                  \o SuggestionLines(time_analysis.suggestions) \o "\n"
             ELSE base_prompt

create_time_aware_prompt(original_query) ==
    BuildPrompt(original_query, analyze_time_query(original_query))

-----------------------------------------------------------------------------
(* Inputs: query texts are concatenations of at most MaxFrags fragments *)

MaxFrags == 2
MaxNumber == 40

\* named periods in both languages, whole numeric phrases (qualified and
\* bare), and the pieces (qualifier, numbers, the start of a decimal
\* number, units, blank, dates, a plain word) phrases are made of
Fragments ==
    { <<JIN1, TIAN>>, <<"t","o","d","a","y">>,
      <<ZUO, TIAN>>, <<"y","e","s","t","e","r","d","a","y">>,
      <<SHANG, ZHOU>>, <<"l","a","s","t"," ","w","e","e","k">>,
      <<SHANG, YUE>>, <<"l","a","s","t"," ","m","o","n","t","h">>,
      <<GUO, QU, "3", TIAN>>, <<GUO, QU, "2", "4", XIAO, SHI>>,
      <<GUO, QU>>,
      <<"3">>, <<"2","4">>,
      <<TIAN>>, <<XIAO, SHI>>, <<"h">>, <<"d">>,
      <<"5","h">>, <<"5","d">>, <<"2",".">>,
      <<" ">>,
      <<"2","0","2","5","-","0","7","-","0","1">>, <<"0","7","/","1","0">>,
      <<"l","o","g">> }

RECURSIVE TextsOf(_)
TextsOf(n) ==
    IF n = 0 THEN {<<>>}
    ELSE LET shorter == TextsOf(n - 1) IN
         shorter \cup {t \o f : t \in shorter, f \in Fragments}

\* texts written with capital letters, and with the long s
CasedTexts ==
    { <<"P","A","S","T"," ","7"," ","D","A","Y","S">>,
      <<"T","o","d","a","y">>, <<"T","O","D","A","Y">>,
      <<"3","D">>, <<"2","4","H">>, <<"5"," ","H","o","u","r","s">>,
      <<"Y","E","S","T","E","R","D","A","Y">>,
      <<"L","a","s","t"," ","W","e","e","k">>,
      <<"L","A","S","T"," ","M","O","N","T","H">>,
      <<"L","O","G">>,
      <<"y","e",LONG_S,"t","e","r","d","a","y">>,
      <<"l","a",LONG_S,"t"," ","w","e","e","k">>,
      <<"5"," ","h","o","u","r",LONG_S>> }

\* texts with quantities in weeks, months and minutes, alone and mixed with
\* other units
MixedUnitTexts ==
    { <<"5","w">>, <<"2"," ","w","e","e","k","s">>, <<GUO,QU,"2",ZHOU>>,
      <<"5","m">>, <<"5"," ","m">>, <<"5","M">>, <<"1","5","m">>,
      <<"5"," ","m","i","n","u","t","e","s">>, <<"3"," ","m","o","n","t","h","s">>,
      <<GUO,QU,"3",YUE>>,
      <<"5","m"," ","7","m">>,
      <<GUO,QU,"3",YUE,"5","m">>, <<"5","m"," ",GUO,QU,"3",YUE>>,
      <<"5","m"," ","5","w">>, <<"5","w"," ","5","d">>, <<"5","m"," ","5","h">>,
      <<GUO,QU,"2",ZHOU," ","5","d">>, <<GUO,QU,"3",YUE," ","2"," ","w","e","e","k","s">>,
      <<"5","m"," ",ZUO,TIAN>>,
      <<"m","5">>, <<"5","-","m">> }

Texts == TextsOf(MaxFrags) \cup CasedTexts \cup MixedUnitTexts

\* date strings: [year sep] month sep day [" " hour ":" minute], and some others
DateParts ==
    LET years  == {<<"2","0","2","5">>, <<"1","9","0","0">>}
        months == {<<"0","7">>, <<"1","3">>}
        days   == {<<"0","1">>, <<"1","0">>}
        seps   == {<<"-">>, <<"/">>}
        md     == {m \o p \o d : m \in months, p \in seps, d \in days}
    IN  md \cup {y \o <<x[3]>> \o x : y \in years, x \in md}

DateStrs ==
    {d \o t : d \in DateParts, t \in {<<>>, <<" ","0","8",":","3","0">>}}
    \cup { <<"2","0","2","5","-","0","2","-","3","0">>,
           <<"2","0","2","4","-","0","2","-","2","9">>,
           <<"0","2","-","2","9">>,
           <<"2","0","2","5","/","0","7","/","0","1"," ","0","8",":","3","0",":","1","5">>,
           <<" ","2","0","2","5","-","0","7","-","1","0"," ">>,
           <<"l","o","g">> }

\* what a caller may pass as start_time or end_time
AbsArgs == DateStrs \cup NonStrArgs

\* the calendar years datetime.now() may fall in: a common and a leap year
NowYears == {2025, 2028}

NoArgs ==
    [kind |-> "none", text |-> <<>>, number |-> 0, unit |-> "none",
     start_time |-> <<>>, end_time |-> <<>>, now_year |-> 0]

TextCall(t)      == [NoArgs EXCEPT !.kind = "text", !.text = t]
ConvCall(n, u)   == [NoArgs EXCEPT !.kind = "conv", !.number = n, !.unit = u]
AbsCall(a, b, y) == [NoArgs EXCEPT !.kind = "abs", !.start_time = a,
                                   !.end_time = b, !.now_year = y]

Calls ==
    {TextCall(t) : t \in Texts}
    \cup {ConvCall(n, u) : n \in 0..MaxNumber, u \in NumericUnits}
    \cup {AbsCall(a, b, y) : a \in AbsArgs, b \in AbsArgs, y \in NowYears}

-----------------------------------------------------------------------------
(* The state machine: one parser instance, one call at a time *)

Init ==
    /\ relative_patterns = InitPatterns
    /\ call \in Calls
    /\ op = "idle"
    /\ result = None
    /\ handlers = <<>>

\* the matched entry moved to the head of the table, to be tried first by
\* the next call
ParseRelativeTime_move_to_front ==
    /\ op = "idle"
    /\ call.kind = "text"
    /\ result' = parse_relative_time(call.text)
    /\ op' = "parse_relative_time"
    /\ LET text == Strip(Lower(call.text))
           hits == {k \in 1..Len(relative_patterns) :
                      /\ relative_patterns[k].unit \in NumericUnits
                      /\ SearchRe(relative_patterns[k].pattern, text).ok}
           k    == CHOOSE i \in hits : \A j \in hits : i <= j
       IN  relative_patterns' =
             IF hits = {} THEN relative_patterns
             ELSE <<relative_patterns[k]>> \o SubSeq(relative_patterns, 1, k - 1)
                  \o SubSeq(relative_patterns, k + 1, Len(relative_patterns))
    /\ UNCHANGED <<call, handlers>>

ParseRelativeTime ==
    /\ op = "idle"
    /\ call.kind = "text"
    /\ result' = parse_relative_time(call.text)
    /\ op' = "parse_relative_time"
    /\ UNCHANGED <<relative_patterns, call, handlers>>

ConvertToOpensearchRelative ==
    /\ op = "idle"
    /\ call.kind = "conv"
    /\ result' = _convert_to_opensearch_relative(call.number, call.unit)
    /\ op' = "_convert_to_opensearch_relative"
    /\ UNCHANGED <<relative_patterns, call, handlers>>

AnalyzeTimeQuery ==
    /\ op = "idle"
    /\ call.kind = "text"
    /\ result' = analyze_time_query(call.text)
    /\ op' = "analyze_time_query"
    /\ UNCHANGED <<relative_patterns, call, handlers>>

ParseAbsoluteTime ==
    /\ op = "idle"
    /\ call.kind = "abs"
    /\ result' = parse_absolute_time(call.start_time, call.end_time, call.now_year)
    /\ op' = "parse_absolute_time"
    /\ UNCHANGED <<relative_patterns, call, handlers>>

CreateTimeAwarePrompt ==
    /\ op = "idle"
    /\ call.kind = "text"
    /\ result' = create_time_aware_prompt(call.text)
    /\ op' = "create_time_aware_prompt"
    /\ UNCHANGED <<relative_patterns, call, handlers>>

\* the caller takes the result; the instance is ready for the next call
Return ==
    /\ op # "idle"
    /\ op' = "idle"
    /\ result' = None
    /\ UNCHANGED <<relative_patterns, call, handlers>>

Next ==
    \/ ParseRelativeTime
    \/ ConvertToOpensearchRelative
    \/ AnalyzeTimeQuery
    \/ ParseAbsoluteTime
    \/ CreateTimeAwarePrompt
    \/ Return

Spec == Init /\ [][Next]_vars

-----------------------------------------------------------------------------
(* The callers: process_search_query of the API and the loop of              *)
(* example_usage route a query to the parser.  Request handlers run          *)
(* concurrently and share the one global time_parser.                        *)

DAO == "U5230"   \* 到

NumHandlers == 2
Handlers == 1..NumHandlers

\* the queries a handler may receive
Queries ==
    { <<"2","0","2","5","-","0","7","-","0","1"," ",DAO," ","2","0","2","5","-","0","7","-","1","0">>,
      <<"0","7","-","0","1"," ","T","O"," ","0","7","-","1","0">>,
      <<GUO,QU,"3",TIAN,DAO,"l","o","g">>,
      <<"t","o","d","a","y"," ","t","o"," ","0","7","-","1","0">>,
      <<GUO,QU,"3",TIAN>>,
      <<"l","o","g">>,
      <<"0","7","/","1","0">>,
      <<"t","o","m","c","a","t"," ","5","h">> }

RECURSIVE SplitFrom(_, _, _)
\* re.split(r'到|to', text, flags=re.IGNORECASE) from place i on, the part
\* being read starting at place start
SplitFrom(text, i, start) ==
    IF i > Len(text) THEN <<SubSeq(text, start, Len(text))>>
    ELSE IF text[i] = DAO
         THEN <<SubSeq(text, start, i - 1)>> \o SplitFrom(text, i + 1, i + 1)
    ELSE IF i < Len(text) /\ LowerChar(text[i]) = "t" /\ LowerChar(text[i + 1]) = "o"
         THEN <<SubSeq(text, start, i - 1)>> \o SplitFrom(text, i + 2, i + 2)
    ELSE SplitFrom(text, i + 1, start)

re_split(text) == SplitFrom(text, 1, 1)

\* a check that looks for the Chinese separator only
IsRangeQuery_dao_only(user_query) == Contains(user_query, <<DAO>>)

\* if '到' in user_query or ' to ' in user_query.lower()
IsRangeQuery(user_query) ==
    \/ Contains(user_query, <<DAO>>)
    \/ Contains(Lower(user_query), <<" ","t","o"," ">>)

\* the message handed to the model: which of the four templates it is, the
\* query and prompt it carries, and the time filter written into it
EnhancedQuery(k, q, f, p) == [kind |-> k, user_query |-> q, time_filter |-> f, prompt |-> p]
NoQuery == EnhancedQuery("unset", <<>>, None, "")
NoAnalysis == Analysis(FALSE, None, <<>>, "unset")

\* a handler that has just received user_query
Received(q) ==
    [pc |-> "route", user_query |-> q, parts |-> <<>>, text |-> <<>>,
     time_range |-> None, time_analysis |-> NoAnalysis,
     enhanced_query |-> NoQuery, invoked |-> {}]

CallerInit ==
    /\ relative_patterns = InitPatterns
    /\ call = NoArgs
    /\ op = "idle"
    /\ result = None
    /\ handlers \in [Handlers -> {Received(q) : q \in Queries}]

\* the text taken from the last call entered on the instance, as if the
\* argument were kept on the instance
TextOf_instance_attribute(h) == call.text

\* the text the parser call that handler h is running works on: its own
\* argument, a local of the call
TextOf(h) == handlers[h].text

\* the check for a range query and the split
Route(h) ==
    LET me == handlers[h] IN
    /\ me.pc = "route"
    /\ IF IsRangeQuery(me.user_query)
       THEN LET parts == re_split(me.user_query) IN
            IF Len(parts) = 2
            THEN handlers' = [handlers EXCEPT ![h].parts = parts,
                                              ![h].pc = "parse_absolute_time"]
            ELSE handlers' = [handlers EXCEPT
                     ![h].parts = parts,
                     ![h].enhanced_query =
                         EnhancedQuery("plain", me.user_query, None, ""),
                     ![h].pc = "generate_str"]
       ELSE handlers' = [handlers EXCEPT ![h].pc = "create_time_aware_prompt"]
    /\ UNCHANGED <<relative_patterns, call, op, result>>

\* a handler that gives the request up when the parse gives no range
AfterParseAbsoluteTime_abort_on_failure(me, time_range) ==
    IF IsRaise(time_range) \/ time_range = None
    THEN [me EXCEPT !.invoked = @ \cup {"parse_absolute_time"}, !.pc = "aborted"]
    ELSE [me EXCEPT
            !.invoked = @ \cup {"parse_absolute_time"},
            !.time_range = time_range,
            !.enhanced_query =
                EnhancedQuery("range", me.user_query,
                    Some([gte |-> time_range[1].gte, lte |-> time_range[1].lte]), ""),
            !.pc = "generate_str"]

\* what the handler holds once parse_absolute_time has ended with
\* time_range: one of the two templates that follow the call; an exception
\* leaves through the handler's own except clause and ends the request
AfterParseAbsoluteTime(me, time_range) ==
    IF IsRaise(time_range)
    THEN [me EXCEPT !.invoked = @ \cup {"parse_absolute_time"}, !.pc = "aborted"]
    ELSE [me EXCEPT
            !.invoked = @ \cup {"parse_absolute_time"},
            !.time_range = time_range,
            !.enhanced_query =
                IF time_range # None
                THEN EnhancedQuery("range", me.user_query,
                         Some([gte |-> time_range[1].gte,
                               lte |-> time_range[1].lte]), "")
                ELSE EnhancedQuery("fallback", me.user_query, None, ""),
            !.pc = "generate_str"]

\* time_parser.parse_absolute_time(parts[0].strip(), parts[1].strip())
CallParseAbsoluteTime(h) ==
    /\ handlers[h].pc = "parse_absolute_time"
    /\ \E now_year \in NowYears :
         /\ call' = AbsCall(Strip(handlers[h].parts[1]),
                            Strip(handlers[h].parts[2]), now_year)
         /\ handlers' = [handlers EXCEPT ![h] =
                AfterParseAbsoluteTime(handlers[h],
                    parse_absolute_time(Strip(handlers[h].parts[1]),
                                        Strip(handlers[h].parts[2]), now_year))]
    /\ UNCHANGED <<relative_patterns, op, result>>

\* create_time_aware_prompt is entered and calls analyze_time_query, which
\* calls parse_relative_time: the query is bound to the call's parameter
EnterAnalyzeTimeQuery(h) ==
    LET me == handlers[h] IN
    /\ me.pc = "create_time_aware_prompt"
    /\ call' = TextCall(me.user_query)
    /\ handlers' = [handlers EXCEPT
         ![h].text = me.user_query,
         ![h].invoked = @ \cup {"create_time_aware_prompt", "analyze_time_query",
                                "parse_relative_time"},
         ![h].pc = "analyze_time_query"]
    /\ UNCHANGED <<relative_patterns, op, result>>

\* the analysis is computed over the shared table and returned
ReturnAnalysis(h) ==
    /\ handlers[h].pc = "analyze_time_query"
    /\ handlers' = [handlers EXCEPT
         ![h].time_analysis = analyze_time_query(TextOf(h)),
         ![h].pc = "base_prompt"]
    /\ UNCHANGED <<relative_patterns, call, op, result>>

\* the prompt is written and put into the fourth template
ComposePrompt(h) ==
    LET me == handlers[h] IN
    /\ me.pc = "base_prompt"
    /\ handlers' = [handlers EXCEPT
         ![h].enhanced_query =
             EnhancedQuery("time_aware", me.user_query, None,
                           BuildPrompt(me.user_query, me.time_analysis)),
         ![h].pc = "generate_str"]
    /\ UNCHANGED <<relative_patterns, call, op, result>>

\* await fresh_llm.generate_str(message=enhanced_query): the search is run
GenerateStr(h) ==
    /\ handlers[h].pc = "generate_str"
    /\ handlers' = [handlers EXCEPT ![h].pc = "done"]
    /\ UNCHANGED <<relative_patterns, call, op, result>>

CallerNext ==
    \E h \in Handlers :
        \/ Route(h)
        \/ CallParseAbsoluteTime(h)
        \/ EnterAnalyzeTimeQuery(h)
        \/ ReturnAnalysis(h)
        \/ ComposePrompt(h)
        \/ GenerateStr(h)

CallerSpec == CallerInit /\ [][CallerNext]_vars

-----------------------------------------------------------------------------
(* Properties *)

\* predicates on a query text, stated on the text itself
HasKeyword(text, kws) ==
    LET lowered == Lower(text) IN \E kw \in kws : Contains(lowered, kw)

NamedKeywords == KW_TODAY \cup KW_YESTERDAY \cup KW_LAST_WEEK \cup KW_LAST_MONTH

HasNamedKeyword(text) == HasKeyword(text, NamedKeywords)

\* some numeric pattern of the table matches the text
HasNumericExpr(text) ==
    LET lowered == Strip(Lower(text)) IN
    \E k \in 1..Len(InitPatterns) :
        /\ InitPatterns[k].unit \in NumericUnits
        /\ SearchRe(InitPatterns[k].pattern, lowered).ok

HasDigit(text) == \E i \in 1..Len(text) : IsDigit(text[i])

\* two digits, "-" or "/", two digits: the shape every date form
\* (YYYY-MM-DD, YYYY/MM/DD, MM-DD, MM/DD) holds
DateShapedAt(text, i) ==
    /\ i + 4 <= Len(text)
    /\ IsDigit(text[i]) /\ IsDigit(text[i + 1])
    /\ text[i + 2] \in {"-", "/"}
    /\ IsDigit(text[i + 3]) /\ IsDigit(text[i + 4])

HasDateShape(text) == \E i \in 1..Len(text) : DateShapedAt(text, i)

\* the decimal rendering of n >= 0, digit by digit
RECURSIVE Decimal(_)
Decimal(n) ==
    LET d == CASE n % 10 = 0 -> "0" [] n % 10 = 1 -> "1" [] n % 10 = 2 -> "2"
               [] n % 10 = 3 -> "3" [] n % 10 = 4 -> "4" [] n % 10 = 5 -> "5"
               [] n % 10 = 6 -> "6" [] n % 10 = 7 -> "7" [] n % 10 = 8 -> "8"
               [] n % 10 = 9 -> "9"
    IN  IF n < 10 THEN d ELSE Decimal(n \div 10) \o d

Returned(name) == op = name

\* C1: a text holding both a named-period keyword and a numeric relative
\* expression resolves to a named period's range (one whose keyword the text
\* holds), never to the numeric expression's range.
C1_NamedBeforeNumeric ==
    (Returned("parse_relative_time")
        /\ HasNamedKeyword(call.text) /\ HasNumericExpr(call.text))
    => \/ HasKeyword(call.text, KW_TODAY) /\ result = Some(TODAY_RANGE)
       \/ HasKeyword(call.text, KW_YESTERDAY) /\ result = Some(YESTERDAY_RANGE)
       \/ HasKeyword(call.text, KW_LAST_WEEK) /\ result = Some(LAST_WEEK_RANGE)
       \/ HasKeyword(call.text, KW_LAST_MONTH) /\ result = Some(LAST_MONTH_RANGE)

\* today followed by a numeric expression, parsed
C1_Witness ==
    /\ Returned("parse_relative_time")
    /\ call.text = <<JIN1, TIAN>> \o <<GUO, QU, "2", "4", XIAO, SHI>>
    /\ HasNumericExpr(call.text)
    /\ result = Some(TODAY_RANGE)

\* C2: for hours and days the normalizer returns gte = "now-{n}h" resp.
\* "now-{n}d" and lte = "now".
C2_HoursDaysRange ==
    (Returned("_convert_to_opensearch_relative") /\ call.unit \in {"hours", "days"})
    => /\ result.gte = "now-" \o Decimal(call.number)
                       \o (IF call.unit = "hours" THEN "h" ELSE "d")
       /\ result.lte = "now"

C2_Witness ==
    /\ Returned("_convert_to_opensearch_relative")
    /\ call.unit = "hours" /\ call.number = 24
    /\ result.gte = "now-24h"

\* C3: for weeks the normalizer returns gte = "now-{7n}d" and lte = "now".
C3_WeeksFoldedToDays ==
    (Returned("_convert_to_opensearch_relative") /\ call.unit = "weeks")
    => /\ result.gte = "now-" \o Decimal(7 * call.number) \o "d"
       /\ result.lte = "now"

C3_Witness ==
    /\ Returned("_convert_to_opensearch_relative")
    /\ call.unit = "weeks" /\ call.number = 2
    /\ result.gte = "now-14d"

\* C4: for months the normalizer returns gte = "now-{30n}d" and lte = "now".
C4_MonthsFoldedToDays ==
    (Returned("_convert_to_opensearch_relative") /\ call.unit = "months")
    => /\ result.gte = "now-" \o Decimal(30 * call.number) \o "d"
       /\ result.lte = "now"

C4_Witness ==
    /\ Returned("_convert_to_opensearch_relative")
    /\ call.unit = "months" /\ call.number = 3
    /\ result.gte = "now-90d"

\* C5: the named period a text resolves to (the first, in the order today,
\* yesterday, last week, last month, whose Chinese or English keyword the
\* text holds) fixes the range, whatever else the text holds:
\* today (now/d, now), yesterday (now-1d/d, now-1d/d+1d), last week
\* (now-7d, now), last month (now-30d, now).
C5_NamedPeriodFixedRange ==
    (Returned("parse_relative_time") /\ HasNamedKeyword(call.text))
    => /\ result # None
       /\ LET r == result[1] IN
          IF HasKeyword(call.text, KW_TODAY)
          THEN r.gte = "now/d" /\ r.lte = "now"
          ELSE IF HasKeyword(call.text, KW_YESTERDAY)
          THEN r.gte = "now-1d/d" /\ r.lte = "now-1d/d+1d"
          ELSE IF HasKeyword(call.text, KW_LAST_WEEK)
          THEN r.gte = "now-7d" /\ r.lte = "now"
          ELSE r.gte = "now-30d" /\ r.lte = "now"

\* the English keyword with other text around it
C5_Witness ==
    /\ Returned("parse_relative_time")
    /\ call.text = <<"l","o","g">> \o <<"y","e","s","t","e","r","d","a","y">>
    /\ result # None
    /\ result[1].lte = "now-1d/d+1d"

\* C6: when the relative classification of the query succeeds,
\* analyze_time_query returns has_time, type relative, the relative range,
\* and no suggestions; a query "過去3天..." with no named period and no hours
\* expression has gte = "now-3d".
C6_RelativeReturnsAtOnce ==
    Returned("analyze_time_query") =>
      /\ (HasNamedKeyword(call.text) \/ HasNumericExpr(call.text))
         => /\ result.has_time = TRUE
            /\ result.type = "relative"
            /\ result.time_range = parse_relative_time(call.text)
            /\ result.time_range # None
            /\ result.suggestions = <<>>
      /\ ( /\ Len(call.text) >= 4
           /\ SubSeq(call.text, 1, 4) = <<GUO, QU, "3", TIAN>>
           /\ ~HasNamedKeyword(call.text)
           /\ \A k \in 1..Len(InitPatterns) :
                InitPatterns[k].unit = "hours"
                => ~SearchRe(InitPatterns[k].pattern, Strip(Lower(call.text))).ok )
         => /\ result.time_range # None
            /\ result.time_range[1].gte = "now-3d"

\* the phrase followed by other text
C6_Witness ==
    /\ Returned("analyze_time_query")
    /\ call.text = <<GUO, QU, "3", TIAN>> \o <<"l","o","g">>
    /\ result.has_time = TRUE
    /\ result.time_range[1].gte = "now-3d"
    /\ result.suggestions = <<>>

\* C7: a query holding both a relative expression and a date-shaped substring
\* is classified relative, never absolute.
C7_RelativeBeforeAbsolute ==
    (Returned("analyze_time_query")
        /\ (HasNamedKeyword(call.text) \/ HasNumericExpr(call.text))
        /\ HasDateShape(call.text))
    => result.type = "relative" /\ result.has_time = TRUE

C7_Witness ==
    /\ Returned("analyze_time_query")
    /\ call.text = <<GUO, QU, "3", TIAN>> \o <<"2","0","2","5","-","0","7","-","0","1">>
    /\ HasDateShape(call.text)
    /\ result.type = "relative"

\* C8: a text with no digit and no named-period keyword is classified none
\* (has_time false, no range, type unset) with exactly two non-empty
\* suggestions, the relative hint and the absolute hint.
C8_NoneHasTwoSuggestions ==
    (Returned("analyze_time_query")
        /\ ~HasDigit(call.text) /\ ~HasNamedKeyword(call.text))
    => /\ result.has_time = FALSE
       /\ result.time_range = None
       /\ result.type = "None"
       /\ Len(result.suggestions) = 2
       /\ result.suggestions[1] # "" /\ result.suggestions[2] # ""
       /\ result.suggestions = <<SUGGEST_RELATIVE, SUGGEST_ABSOLUTE>>

C8_Witness ==
    /\ Returned("analyze_time_query")
    /\ call.text = <<"l","o","g">> \o <<"d">>
    /\ result.type = "None"
    /\ Len(result.suggestions) = 2

\* C9: when the relative classification fails and the query holds a
\* date-shaped substring, the result is type absolute with the one suggestion
\* asking for a full start/end pair, no range and has_time false.
C9_DateShapeIsAbsoluteHint ==
    (Returned("analyze_time_query")
        /\ ~HasNamedKeyword(call.text) /\ ~HasNumericExpr(call.text)
        /\ HasDateShape(call.text))
    => /\ result.type = "absolute"
       /\ result.suggestions = <<SUGGEST_FULL_RANGE>>
       /\ result.time_range = None
       /\ result.has_time = FALSE

\* a month/day pair with "/" in the middle of other text
C9_Witness ==
    /\ Returned("analyze_time_query")
    /\ call.text = <<"l","o","g">> \o <<"0","7","/","1","0">>
    /\ result.type = "absolute"
    /\ result.has_time = FALSE
\* C10: parse_absolute_time is all-or-nothing: when either string matches
\* none of the accepted formats the call returns None, never a range; a
\* string with month 13 ("2025-13-01") is such a string.
C10_AbsoluteAllOrNothing ==
    Returned("parse_absolute_time") =>
      /\ ( \/ _parse_datetime(call.start_time, call.now_year) = None
           \/ _parse_datetime(call.end_time, call.now_year) = None )
         => result = None
      /\ <<"2","0","2","5","-","1","3","-","0","1">>
            \in {call.start_time, call.end_time}
         => result = None

\* the start has month 13, the end is a valid date
C10_Witness ==
    /\ Returned("parse_absolute_time")
    /\ call.start_time = <<"2","0","2","5","-","1","3","-","0","1">>
    /\ call.end_time = <<"2","0","2","5","-","0","7","-","1","0">>
    /\ _parse_datetime(call.end_time, call.now_year) # None
    /\ result = None

\* a value is a time range: one record with the three fields
IsRange(v) == Len(v) = 1 /\ DOMAIN v[1] = {"gte", "lte", "description"}

\* C11: parse_absolute_time lets no exception out: for every pair of
\* arguments, those of an unexpected type that make the parsing raise
\* included, the call ends with a range or with None.
C11_AbsoluteNeverRaises ==
    Returned("parse_absolute_time") =>
      /\ ~IsRaise(result)
      /\ result = None \/ IsRange(result)
      /\ (call.start_time \in NonStrArgs \/ call.end_time \in NonStrArgs)
         => result = None

\* an argument that is not a string made the parsing raise, and the call
\* returned None
C11_Witness ==
    /\ Returned("parse_absolute_time")
    /\ call.start_time = <<"2","0","2","5","-","0","7","-","0","1">>
    /\ call.end_time = BytesType
    /\ IsRaise(TryBody(call.start_time, call.end_time, call.now_year))
    /\ result = None

\* a string is a date of year y written without the year: two digits of
\* month, "-" or "/", two digits of day, then nothing or " HH:MM"
IsMonthDayOnly(s, y) ==
    LET two(i) == ToInt(SubSeq(s, i, i + 1)) IN
    /\ s \notin NonStrArgs
    /\ Len(s) \in {5, 11}
    /\ \A i \in {1, 2, 4, 5} : IsDigit(s[i])
    /\ s[3] \in {"-", "/"}
    /\ two(1) \in 1..12
    /\ two(4) \in 1..DaysInMonth(y, two(1))
    /\ Len(s) = 11 =>
          /\ s[6] = " " /\ s[9] = ":"
          /\ \A i \in {7, 8, 10, 11} : IsDigit(s[i])
          /\ two(7) <= 23 /\ two(10) <= 59

\* C12: a string passed to parse_absolute_time in a month-day-only form (no
\* year, "-" or "/" separator, with or without hour:minute) parses, and the
\* current calendar year is put into that bound; when both strings are
\* year-less both bounds of the range carry the current year.
C12_YearlessTakesCurrentYear ==
    Returned("parse_absolute_time") =>
      /\ \A s \in {call.start_time, call.end_time} :
            IsMonthDayOnly(s, call.now_year) =>
                LET dt == _parse_datetime(s, call.now_year) IN
                dt # None /\ dt[1].Y = call.now_year
      /\ ( /\ IsMonthDayOnly(call.start_time, call.now_year)
           /\ IsMonthDayOnly(call.end_time, call.now_year) )
         => /\ result # None
            /\ SubSeq(result[1].gte, 1, 4) = Decimal(call.now_year)
            /\ SubSeq(result[1].lte, 1, 4) = Decimal(call.now_year)

\* the place in the format list of the first format the string satisfies
\* once stripped, 0 when it satisfies none
FirstFormat(s) ==
    LET ok == {k \in 1..Len(formats) : strptime(Strip(s), formats[k]).ok} IN
    IF ok = {} THEN 0 ELSE CHOOSE k \in ok : \A j \in ok : k <= j

\* the instant the string denotes under format k, the current year y
\* standing in for the default year
ValueUnder(s, k, y) ==
    LET dt == strptime(Strip(s), formats[k]).dt IN
    IF dt.Y = 1900 THEN [dt EXCEPT !.Y = y] ELSE dt

\* C13: each of the two strings is parsed on its own against the same
\* ordered format list and takes the value of the first format it satisfies;
\* the two may satisfy different formats and still yield a range.
C13_EachStringFirstFormat ==
    ( /\ Returned("parse_absolute_time")
      /\ call.start_time \notin NonStrArgs /\ call.end_time \notin NonStrArgs
      /\ FirstFormat(call.start_time) # 0 /\ FirstFormat(call.end_time) # 0 )
    => /\ result # None
       /\ result[1].gte = isoformat(ValueUnder(call.start_time,
                               FirstFormat(call.start_time), call.now_year))
       /\ result[1].lte = isoformat(ValueUnder(call.end_time,
                               FirstFormat(call.end_time), call.now_year))

\* the start is "2025/07/01 08:30" (slashes, with a time), the end is
\* "2025-07-10" (dashes, date only): two formats, one range
C13_Witness ==
    /\ Returned("parse_absolute_time")
    /\ call.start_time = <<"2","0","2","5","/","0","7","/","0","1"," ","0","8",":","3","0">>
    /\ call.end_time = <<"2","0","2","5","-","0","7","-","1","0">>
    /\ FirstFormat(call.start_time) = 5
    /\ FirstFormat(call.end_time) = 3
    /\ result # None
    /\ result[1].gte = "2025-07-01T08:30:00"
    /\ result[1].lte = "2025-07-10T00:00:00"

\* a number below 100 in two digits, a year in four
TwoDigits(n)  == IF n < 10 THEN "0" \o Decimal(n) ELSE Decimal(n)
FourDigits(n) == IF n < 10 THEN "000" \o Decimal(n)
                 ELSE IF n < 100 THEN "00" \o Decimal(n)
                 ELSE IF n < 1000 THEN "0" \o Decimal(n)
                 ELSE Decimal(n)

\* YYYY-MM-DD, hh:mm and hh:mm:ss of an instant
YearMonthDay(dt) ==
    FourDigits(dt.Y) \o "-" \o TwoDigits(dt.m) \o "-" \o TwoDigits(dt.d)
HourMinute(dt) == TwoDigits(dt.H) \o ":" \o TwoDigits(dt.M)
HourMinuteSecond(dt) == HourMinute(dt) \o ":" \o TwoDigits(dt.S)

\* C14: on success gte and lte are the ISO-8601 serialization of the parsed
\* start and end instants (YYYY-MM-DDThh:mm:ss), and the description is
\* "從 {start} 到 {end}" with both instants as year-month-day hour:minute.
C14_IsoBoundsAndDescription ==
    (Returned("parse_absolute_time") /\ result # None) =>
        LET start_dt == _parse_datetime(call.start_time, call.now_year)[1]
            end_dt   == _parse_datetime(call.end_time, call.now_year)[1]
        IN  /\ result[1].gte =
                  YearMonthDay(start_dt) \o "T" \o HourMinuteSecond(start_dt)
            /\ result[1].lte =
                  YearMonthDay(end_dt) \o "T" \o HourMinuteSecond(end_dt)
            /\ result[1].description =
                  "U5F9E " \o YearMonthDay(start_dt) \o " " \o HourMinute(start_dt)
                  \o " U5230 " \o YearMonthDay(end_dt) \o " " \o HourMinute(end_dt)

\* a start with seconds and a date-only end: the seconds are in the bound
\* and not in the description
C14_Witness ==
    /\ Returned("parse_absolute_time")
    /\ call.start_time = <<"2","0","2","5","/","0","7","/","0","1"," ","0","8",":","3","0",":","1","5">>
    /\ call.end_time = <<"2","0","2","5","-","0","7","-","1","0">>
    /\ result # None
    /\ result[1].gte = "2025-07-01T08:30:15"
    /\ result[1].lte = "2025-07-10T00:00:00"
    /\ result[1].description = "U5F9E 2025-07-01 08:30 U5230 2025-07-10 00:00"

\* the instant a date string denotes as written: the year it spells out,
\* the current year y when it spells none
Written(s, y) ==
    LET k  == FirstFormat(s)
        dt == strptime(Strip(s), formats[k]).dt
    IN  IF formats[k][1] = "Y" THEN dt ELSE [dt EXCEPT !.Y = y]

\* instant a is not later than instant b
NotLater(a, b) ==
    LET ka == <<a.Y, a.m, a.d, a.H, a.M, a.S>>
        kb == <<b.Y, b.m, b.d, b.H, b.M, b.S>>
    IN  \/ ka = kb
        \/ \E i \in 1..6 : ka[i] < kb[i] /\ \A j \in 1..(i - 1) : ka[j] = kb[j]

\* the number a string of digits spells
RECURSIVE StrToInt(_)
StrToInt(str) ==
    IF Len(str) = 0 THEN 0
    ELSE 10 * StrToInt(SubSeq(str, 1, Len(str) - 1))
         + DigitVal(SubSeq(str, Len(str), Len(str)))

\* the instant an ISO-8601 bound YYYY-MM-DDThh:mm:ss spells
FromIso(str) ==
    [Y |-> StrToInt(SubSeq(str, 1, 4)),   m |-> StrToInt(SubSeq(str, 6, 7)),
     d |-> StrToInt(SubSeq(str, 9, 10)),  H |-> StrToInt(SubSeq(str, 12, 13)),
     M |-> StrToInt(SubSeq(str, 15, 16)), S |-> StrToInt(SubSeq(str, 18, 19))]

\* string part occurs in string str
Within(str, part) ==
    \E i \in 1..(Len(str) - Len(part) + 1) :
        SubSeq(str, i, i + Len(part) - 1) = part

\* C15: for two valid date strings of which the start is not later than the
\* end, parse_absolute_time yields a range whose bounds are ordered,
\* gte not after lte, and whose description contains both dates.
C15_OrderedDatesOrderedBounds ==
    ( /\ Returned("parse_absolute_time")
      /\ call.start_time \notin NonStrArgs /\ call.end_time \notin NonStrArgs
      /\ FirstFormat(call.start_time) # 0 /\ FirstFormat(call.end_time) # 0
      /\ NotLater(Written(call.start_time, call.now_year),
                  Written(call.end_time, call.now_year)) )
    => /\ result # None
       /\ NotLater(FromIso(result[1].gte), FromIso(result[1].lte))
       /\ Within(result[1].description,
                 YearMonthDay(Written(call.start_time, call.now_year)))
       /\ Within(result[1].description,
                 YearMonthDay(Written(call.end_time, call.now_year)))

\* C16: for every quantity n the description of a weeks or months
\* expression carries the quantity as given, not the folded day count:
\* n weeks is "過去{n}週" (not "過去{7n}天"), n months is "過去{n}個月" (not
\* 30n), while gte carries the folded day count.
C16_DescriptionKeepsGranularity ==
    Returned("_convert_to_opensearch_relative") =>
      /\ call.unit = "weeks" =>
            /\ result.description = "U904EU53BB" \o Decimal(call.number) \o "U9031"
            /\ result.description # "U904EU53BB" \o Decimal(7 * call.number) \o "U5929"
            /\ result.gte = "now-" \o Decimal(7 * call.number) \o "d"
      /\ call.unit = "months" =>
            /\ result.description = "U904EU53BB" \o Decimal(call.number) \o "U500BU6708"
            /\ result.description # "U904EU53BB" \o Decimal(30 * call.number) \o "U500BU6708"
                  \/ call.number = 0
            /\ result.gte = "now-" \o Decimal(30 * call.number) \o "d"

\* two weeks: fourteen days in the bound, "過去2週" in the description
C16_Witness ==
    /\ Returned("_convert_to_opensearch_relative")
    /\ call.unit = "weeks" /\ call.number = 2
    /\ result.gte = "now-14d"
    /\ result.description = "U904EU53BB2U9031"

\* the numeric entries of the table matching the stripped, lower-cased text
MatchingEntries(text) ==
    LET lowered == Strip(Lower(text)) IN
    {k \in 1..Len(InitPatterns) :
        /\ InitPatterns[k].unit \in NumericUnits
        /\ SearchRe(InitPatterns[k].pattern, lowered).ok}

\* what the scan returns when entry k decides
DecidedBy(k, text) ==
    Some(_convert_to_opensearch_relative(
            ToInt(SearchRe(InitPatterns[k].pattern, Strip(Lower(text))).grp),
            InitPatterns[k].unit))

\* entry k is a bare suffix form; is spelled out in English; carries a
\* qualifier (the rest)
IsBareSuffix(k) == InitPatterns[k].pattern \in BareSuffixPatterns
IsSpelledOut(k) ==
    InitPatterns[k].pattern \in
        {"(\\d+)\\s*hour[s]?", "(\\d+)\\s*day[s]?",
         "(\\d+)\\s*week[s]?", "(\\d+)\\s*month[s]?"}
HasQualifier(k) == ~IsBareSuffix(k) /\ ~IsSpelledOut(k)

\* the place of a unit in the order hours, days, weeks, months
UnitRank(u) == CASE u = "hours" -> 1 [] u = "days" -> 2
                 [] u = "weeks" -> 3 [] u = "months" -> 4

\* C17 as stated: in the numeric scan, for any text in which a qualified
\* phrasing (with a qualifier or a spelled-out unit) and a bare suffix form
\* both match, a qualified phrasing determines the returned quantity and unit.
C17_QualifiedBeforeBare ==
    ( /\ Returned("parse_relative_time")
      /\ ~HasNamedKeyword(call.text)
      /\ \E k \in MatchingEntries(call.text) : ~IsBareSuffix(k)
      /\ \E k \in MatchingEntries(call.text) : IsBareSuffix(k) )
    => result \in {DecidedBy(k, call.text) :
                     k \in {j \in MatchingEntries(call.text) : ~IsBareSuffix(j)}}

\* C17, amended: for any text in which a phrasing with a qualifier and a
\* bare suffix form both match, and no pattern of an earlier unit (in the
\* order hours, days, weeks, months) matches, a qualified phrasing of that
\* unit determines the returned quantity and unit.
C17_QualifiedBeforeBareInUnit ==
    (Returned("parse_relative_time") /\ ~HasNamedKeyword(call.text)) =>
      LET matching == MatchingEntries(call.text) IN
      \A u \in NumericUnits :
        LET qualified == {k \in matching :
                            HasQualifier(k) /\ InitPatterns[k].unit = u}
        IN  ( /\ qualified # {}
              /\ \E k \in matching : IsBareSuffix(k)
              /\ \A k \in matching :
                    UnitRank(InitPatterns[k].unit) >= UnitRank(u) )
            => result \in {DecidedBy(k, call.text) : k \in qualified}

\* "過去3天5d": the qualified phrase says 3 days, the bare form 5 days, and
\* the answer is 3 days
C17_Witness ==
    /\ Returned("parse_relative_time")
    /\ call.text = <<GUO, QU, "3", TIAN, "5", "d">>
    /\ \E k \in MatchingEntries(call.text) :
          IsBareSuffix(k) /\ DecidedBy(k, call.text)[1].gte = "now-5d"
    /\ result # None
    /\ result[1].gte = "now-3d"

\* the maximal runs of digits of a text, each as its first and last place
DigitRuns(text) ==
    {r \in (1..Len(text)) \X (1..Len(text)) :
        /\ r[1] <= r[2]
        /\ \A i \in r[1]..r[2] : IsDigit(text[i])
        /\ r[1] = 1 \/ ~IsDigit(text[r[1] - 1])
        /\ r[2] = Len(text) \/ ~IsDigit(text[r[2] + 1])}

\* the run is the whole or the fractional part of a non-integer number:
\* a "." and a digit stand right after it, or right before it
PartOfDecimal(text, r) ==
    \/ r[2] + 2 <= Len(text) /\ text[r[2] + 1] = "." /\ IsDigit(text[r[2] + 2])
    \/ r[1] > 2 /\ text[r[1] - 1] = "." /\ IsDigit(text[r[1] - 2])

\* the quantities a text spells as integers
IntegerQuantities(text) ==
    {ToInt(SubSeq(text, r[1], r[2])) :
        r \in {q \in DigitRuns(text) : ~PartOfDecimal(text, q)}}

\* C18: a non-integer quantity such as "2.5 hours" counts as no match and
\* the scan goes on: a range the numeric scan returns is built from a
\* quantity the text spells as an integer, never from a part of a
\* non-integer number.
C18_NoRangeFromPartOfNumber ==
    ( /\ Returned("parse_relative_time")
      /\ ~HasNamedKeyword(call.text)
      /\ result # None )
    => result \in {Some(_convert_to_opensearch_relative(n, u)) :
                     n \in IntegerQuantities(call.text), u \in NumericUnits}

\* a string of one or more digits
IsDigits(str) ==
    /\ Len(str) >= 1
    /\ \A i \in 1..Len(str) : IsDigit(SubSeq(str, i, i))

\* a bound of the form now-{n}{unit} with unit h or d
IsNowMinus(str) ==
    /\ Len(str) >= 6
    /\ SubSeq(str, 1, 4) = "now-"
    /\ SubSeq(str, Len(str), Len(str)) \in {"h", "d"}
    /\ IsDigits(SubSeq(str, 5, Len(str) - 1))

\* the forms the claim lists: now, now-{n}{unit}, now/d
IsListedForm(str) == str \in {"now", "now/d"} \/ IsNowMinus(str)

\* the range the relative path has just produced, as a set (empty if none)
RelativeRanges ==
    IF Returned("parse_relative_time") /\ result # None THEN {result[1]}
    ELSE IF Returned("_convert_to_opensearch_relative") THEN {result}
    ELSE {}

\* C19 as stated: every bound the relative path produces is of one of the
\* forms now, now-{n}{unit}, now/d with unit h or d; no other shape and no
\* unit w or M is emitted.
C19_BoundsOfListedForms ==
    \A r \in RelativeRanges : IsListedForm(r.gte) /\ IsListedForm(r.lte)

\* C19, amended: every bound the relative path produces is of one of the
\* forms now, now-{n}{unit}, now/d with unit h or d, or is one of the two
\* bounds of yesterday, now-1d/d and now-1d/d+1d; no unit w or M is emitted.
C19_BoundsOfListedFormsOrYesterday ==
    \A r \in RelativeRanges :
        /\ IsListedForm(r.gte) \/ r.gte = "now-1d/d"
        /\ IsListedForm(r.lte) \/ r.lte = "now-1d/d+1d"

\* yesterday: both bounds are rounded to the day
C19_Witness ==
    /\ Returned("parse_relative_time")
    /\ HasKeyword(call.text, KW_YESTERDAY)
    /\ result # None
    /\ result[1].gte = "now-1d/d"
    /\ result[1].lte = "now-1d/d+1d"
    /\ ~IsListedForm(result[1].gte)

\* parse_relative_time as a freshly constructed instance computes it: over
\* the table as __init__ builds it
FreshRelative(text0) ==
    LET text == Strip(Lower(text0)) IN
    NamedPeriodCheck(text, ScanPatterns(InitPatterns, 1, text))

\* analyze_time_query on a fresh instance
FreshAnalysis(query) ==
    LET relative_result == FreshRelative(query) IN
    IF relative_result # None
    THEN Analysis(TRUE, relative_result, <<>>, "relative")
    ELSE IF HasAbsoluteIndicator(query)
         THEN Analysis(FALSE, None, <<SUGGEST_FULL_RANGE>>, "absolute")
         ELSE Analysis(FALSE, None, <<SUGGEST_RELATIVE, SUGGEST_ABSOLUTE>>, "None")

\* C20: no operation of the parser changes instance state: whatever calls
\* have been made, relative_patterns has the keys, values and order it had
\* right after construction, and a call's result is the result of the same
\* call on a fresh instance.
C20_InstanceStateUnchanged ==
    /\ relative_patterns = InitPatterns
    /\ Returned("parse_relative_time") => result = FreshRelative(call.text)
    /\ Returned("analyze_time_query") => result = FreshAnalysis(call.text)
    /\ Returned("create_time_aware_prompt") =>
          LET fresh == FreshAnalysis(call.text) IN
          result = "U7528U6236U67E5U8A62: " \o Join(call.text) \o "\n\n"
              \o (IF fresh.has_time
                  THEN "U6AA2U6E2CU5230U6642U9593U7BC4U570D: "
                       \o fresh.time_range[1].description \o "\n"
                       \o "OpenSearchU6642U9593U683CU5F0F: {'gte': '"
                       \o fresh.time_range[1].gte \o "', 'lte': '"
                       \o fresh.time_range[1].lte \o "'}\n\n"
                       \o "U8ACBU4F7FU7528U4E0AU8FF0U6642U9593U7BC4U570DU69CBU5EFAOpenSearchU67E5U8A62U3002"
                  ELSE "U6642U9593U8655U7406U5EFAU8B70:\n"
                       \o SuggestionLines(fresh.suggestions))
              \o "\n"

\* a call that matched a numeric pattern in the middle of the table has
\* returned, and the table is the constructor's
C20_Witness ==
    /\ Returned("parse_relative_time")
    /\ call.text = <<GUO, QU, "3", TIAN>>
    /\ result # None
    /\ result[1].gte = "now-3d"
    /\ Len(relative_patterns) = 24
    /\ relative_patterns[6].unit = "days"
    /\ SearchRe(relative_patterns[6].pattern, call.text).ok

-----------------------------------------------------------------------------
\* the handler's parser call has returned to it
AnalysisReturned(h) == handlers[h].pc \in {"base_prompt", "generate_str", "done"}
                       /\ "analyze_time_query" \in handlers[h].invoked
AbsoluteReturned(h) == handlers[h].pc \in {"generate_str", "done"}
                       /\ "parse_absolute_time" \in handlers[h].invoked

\* what each query gives when its call runs alone: the analysis on a fresh
\* instance, and the ranges parse_absolute_time gives for the two parts of
\* the query in the years the call may fall in
AnalysisAlone == [q \in Queries |-> FreshAnalysis(q)]
RangesAlone ==
    [q \in Queries |->
        LET parts == re_split(q) IN
        IF Len(parts) # 2 THEN {}
        ELSE {parse_absolute_time(Strip(parts[1]), Strip(parts[2]), now_year) :
                 now_year \in NowYears}]

\* C21: handlers sharing the one parser instance and interleaved in any
\* order each get the result their call gives alone on their own query:
\* the analysis a handler holds is the analysis of its own query on a fresh
\* instance, and the range a handler holds is parse_absolute_time of the two
\* parts of its own query; the shared table is never changed.
C21_ConcurrentCallsIsolated ==
    /\ relative_patterns = InitPatterns
    /\ \A h \in Handlers :
         /\ AnalysisReturned(h) =>
               handlers[h].time_analysis = AnalysisAlone[handlers[h].user_query]
         /\ AbsoluteReturned(h) =>
               handlers[h].time_range \in RangesAlone[handlers[h].user_query]

\* handler 1 has its analysis back while handler 2, with another query that
\* analyses differently, is inside its own call, entered last
C21_Witness ==
    /\ handlers[1].pc = "base_prompt"
    /\ handlers[2].pc = "analyze_time_query"
    /\ call.text = handlers[2].user_query
    /\ FreshAnalysis(handlers[1].user_query) # FreshAnalysis(handlers[2].user_query)
    /\ handlers[1].time_analysis.has_time

-----------------------------------------------------------------------------
\* the handler called parse_absolute_time and holds no range
ParseFailed(h) == /\ "parse_absolute_time" \in handlers[h].invoked
                  /\ handlers[h].time_range = None

\* C24: a failed time parse never aborts the request: a handler whose
\* parse_absolute_time call gave no range is not aborted; it stands at the
\* search call or behind it, and the message it sends is the fallback
\* template over the original query with no time filter.
C24_FailedParseFallsBack ==
    \A h \in Handlers :
        ParseFailed(h) =>
            /\ handlers[h].pc \in {"generate_str", "done"}
            /\ handlers[h].enhanced_query =
                   EnhancedQuery("fallback", handlers[h].user_query, None, "")

\* the two parts of some handler's query did not parse and its search was run
C24_Witness ==
    \E h \in Handlers :
        /\ ParseFailed(h)
        /\ handlers[h].user_query = <<GUO,QU,"3",TIAN,DAO,"l","o","g">>
        /\ handlers[h].pc = "done"

-----------------------------------------------------------------------------
\* the places of the query where the pattern of the split matches
SeparatorPlaces(q) ==
    { i \in 1..Len(q) :
        \/ q[i] = DAO
        \/ i < Len(q) /\ q[i] \in {"t", "T"} /\ q[i + 1] \in {"o", "O"} }

\* the query contains the Chinese separator or the word "to" between blanks
HasRangeSeparator(q) ==
    \E i \in 1..Len(q) :
        \/ q[i] = DAO
        \/ /\ i + 3 <= Len(q)
           /\ q[i] = " " /\ q[i + 1] \in {"t", "T"} /\ q[i + 2] \in {"o", "O"}
           /\ q[i + 3] = " "

\* C27: a query holding the separator goes to the absolute path only:
\* neither create_time_aware_prompt nor analyze_time_query nor
\* parse_relative_time is ever invoked for it and the only time filter it can
\* get is one of parse_absolute_time; once it stands at the search call,
\* parse_absolute_time has been invoked exactly when the split pattern
\* matches at one place of the query, that is when the split gives two
\* parts.  A query without the separator never reaches parse_absolute_time.
C27_RangeQueriesTakeAbsolutePath ==
    \A h \in Handlers :
        LET me == handlers[h] IN
        IF HasRangeSeparator(me.user_query)
        THEN /\ me.invoked \subseteq {"parse_absolute_time"}
             /\ me.time_analysis = NoAnalysis
             /\ me.pc \notin {"create_time_aware_prompt", "analyze_time_query", "base_prompt"}
             /\ me.enhanced_query.kind \in {"unset", "range", "fallback", "plain"}
             /\ me.pc \in {"generate_str", "done", "aborted"} =>
                   ("parse_absolute_time" \in me.invoked
                        <=> Cardinality(SeparatorPlaces(me.user_query)) = 1)
        ELSE /\ "parse_absolute_time" \notin me.invoked
             /\ me.pc # "parse_absolute_time"

\* the search was run for a query with a relative expression before the
\* separator, which got no range, and for a query that splits in three parts
C27_Witness ==
    /\ handlers[1].user_query = <<GUO,QU,"3",TIAN,DAO,"l","o","g">>
    /\ handlers[1].pc = "done"
    /\ FreshRelative(handlers[1].user_query) # None
    /\ handlers[1].enhanced_query.time_filter = None
    /\ handlers[2].user_query = <<"t","o","d","a","y"," ","t","o"," ","0","7","-","1","0">>
    /\ handlers[2].pc = "done"
    /\ handlers[2].invoked = {}

-----------------------------------------------------------------------------
\* str.upper() on one character
UpperChar(c) ==
    IF c = LONG_S THEN "S"
    ELSE IF \E u \in DOMAIN LowerMap : LowerMap[u] = c
         THEN CHOOSE u \in DOMAIN LowerMap : LowerMap[u] = c
         ELSE c

Upper(s) == [i \in 1..Len(s) |-> UpperChar(s[i])]

\* capitals at the odd places, small letters at the even places
Alternating(s) ==
    [i \in 1..Len(s) |-> IF i % 2 = 1 THEN UpperChar(s[i]) ELSE LowerChar(s[i])]

\* the text with the letter case of some of its characters changed
CaseChanges(s) == {Upper(s), Lower(s), Alternating(s)}

\* both cases of every character of the text have one lower-case form, as
\* both cases of every letter from a to z do
LowerIsCaseFold(s) ==
    \A i \in 1..Len(s) : LowerChar(UpperChar(s[i])) = LowerChar(s[i])

-----------------------------------------------------------------------------
\* the three suggestion texts analyze_time_query can return
AllSuggestions == {SUGGEST_FULL_RANGE, SUGGEST_RELATIVE, SUGGEST_ABSOLUTE}

\* the marks of a rendered range
RangeMarks == {"U6AA2U6E2CU5230U6642U9593U7BC4U570D", "OpenSearchU6642U9593U683CU5F0F",
               "'gte'", "'lte'"}

\* C23: the prompt of create_time_aware_prompt begins with the line of the
\* original query, written as given, and what follows renders what
\* analyze_time_query returns for that query: with has_time, the
\* description and the gte/lte pair of the range and none of the
\* suggestions; without, one line "- suggestion" for each returned
\* suggestion and nothing of a range.
C23_PromptRendersAnalysis ==
    Returned("create_time_aware_prompt") =>
        LET time_analysis == analyze_time_query(call.text)
            head == "U7528U6236U67E5U8A62: " \o Join(call.text) \o "\n\n"
            rest == SubSeq(result, Len(head) + 1, Len(result))
        IN  /\ Len(result) >= Len(head)
            /\ SubSeq(result, 1, Len(head)) = head
            /\ IF time_analysis.has_time
               THEN LET time_range == time_analysis.time_range[1] IN
                    /\ Within(rest, ": " \o time_range.description \o "\n")
                    /\ Within(rest, "{'gte': '" \o time_range.gte
                                    \o "', 'lte': '" \o time_range.lte \o "'}")
                    /\ \A s \in AllSuggestions : ~Within(rest, s)
               ELSE /\ \A k \in 1..Len(time_analysis.suggestions) :
                          Within(rest, "- " \o time_analysis.suggestions[k] \o "\n")
                    /\ \A s \in AllSuggestions :
                          Within(rest, s) =>
                              \E k \in 1..Len(time_analysis.suggestions) :
                                  time_analysis.suggestions[k] = s
                    /\ \A mark \in RangeMarks : ~Within(rest, mark)

\* the prompt for a query with no time expression shows both suggestions
C23_Witness ==
    /\ Returned("create_time_aware_prompt")
    /\ call.text = <<"l","o","g">>
    /\ Within(result, "- " \o SUGGEST_RELATIVE \o "\n- " \o SUGGEST_ABSOLUTE \o "\n")

-----------------------------------------------------------------------------
\* C25: every result of analyze_time_query has one of three shapes: a
\* relative range found (has_time, type relative, a range, no suggestion);
\* a date seen (no has_time, type absolute, no range, one suggestion);
\* nothing seen (no has_time, type unset, no range, two suggestions).  So
\* has_time, a present range and type relative go together.
C25_AnalysisHasOneOfThreeShapes ==
    Returned("analyze_time_query") =>
        /\ \/ /\ result.has_time = TRUE
              /\ result.type = "relative"
              /\ result.time_range # None
              /\ Len(result.suggestions) = 0
           \/ /\ result.has_time = FALSE
              /\ result.type = "absolute"
              /\ result.time_range = None
              /\ Len(result.suggestions) = 1
           \/ /\ result.has_time = FALSE
              /\ result.type = "None"
              /\ result.time_range = None
              /\ Len(result.suggestions) = 2
        /\ result.has_time <=> (result.time_range # None)
        /\ result.has_time <=> (result.type = "relative")

\* an analysis of the second shape has been returned
C25_Witness ==
    /\ Returned("analyze_time_query")
    /\ result.type = "absolute"
    /\ ~result.has_time
    /\ Len(result.suggestions) = 1

-----------------------------------------------------------------------------
\* the entries of the table of unit u that match the text
MatchingOfUnit(text, u) == {k \in MatchingEntries(text) : InitPatterns[k].unit = u}

\* the first unit, in the order hours, days, weeks, months, of which a
\* pattern matches the text
FirstMatchingUnit(text) ==
    CHOOSE u \in NumericUnits :
        /\ MatchingOfUnit(text, u) # {}
        /\ \A v \in NumericUnits :
              MatchingOfUnit(text, v) # {} => UnitRank(u) <= UnitRank(v)

\* C26: in the numeric scan the unit is decided by the order of the groups
\* of the table, hours, days, weeks, months: the result is in the first of
\* these units of which any pattern matches anywhere in the text, and it is
\* given by the first matching pattern of that unit's group; with no
\* matching pattern there is no result.
C26_UnitGroupsDecidePrecedence ==
    (Returned("parse_relative_time") /\ ~HasNamedKeyword(call.text)) =>
        LET matching == MatchingEntries(call.text) IN
        IF matching = {} THEN result = None
        ELSE LET u == CHOOSE v \in NumericUnits :
                        /\ \E k \in matching : InitPatterns[k].unit = v
                        /\ \A k \in matching :
                              UnitRank(v) <= UnitRank(InitPatterns[k].unit)
                 group == {k \in matching : InitPatterns[k].unit = u}
                 first == CHOOSE k \in group : \A j \in group : k <= j
             IN  result = DecidedBy(first, call.text)

\* a qualified day phrase followed by a bare "5h" gave five hours
C26_Witness ==
    /\ Returned("parse_relative_time")
    /\ call.text = <<GUO, QU, "3", TIAN, "5", "h">>
    /\ MatchingOfUnit(call.text, "days") # {}
    /\ FirstMatchingUnit(call.text) = "hours"
    /\ result = Some(TimeRange("now-5h", "now", "U904EU53BB5U5C0FU6642"))

-----------------------------------------------------------------------------
\* from place i on the text has blanks, if any, and then a letter m
FollowedByM(text, i) ==
    \E j \in i..Len(text) :
        /\ \A b \in i..(j - 1) : IsSpace(text[b])
        /\ text[j] \in {"m", "M"}

\* the runs of digits directly followed, or followed after blanks, by a
\* word that starts with m
MRuns(text) == {r \in DigitRuns(text) : FollowedByM(text, r[2] + 1)}

\* the months range for n months
MonthsRange(n) ==
    Some(TimeRange("now-" \o ToString(30 * n) \o "d", "now",
                   "U904EU53BB" \o ToString(n) \o "U500BU6708"))

\* no named keyword and no hours, days or weeks pattern matches the text
OnlyMonthsCanMatch(text) ==
    /\ ~HasNamedKeyword(text)
    /\ \A k \in MatchingEntries(text) : InitPatterns[k].unit = "months"

\* the original statement of C29: a text with digits n followed by a word
\* starting with m, and no named-period, hours, days or weeks match, gets
\* the months range of such an n, gte = now-{30n}d
C29_LowercaseMGivesMonths ==
    ( /\ Returned("parse_relative_time")
      /\ OnlyMonthsCanMatch(call.text)
      /\ MRuns(call.text) # {} )
    => \E r \in MRuns(call.text) :
          result = MonthsRange(ToInt(SubSeq(call.text, r[1], r[2])))

\* C29: the months suffix pattern, digits followed by M, also matches a
\* small m: a text with digits n followed by a word starting with m, with no
\* named-period, hours, days or weeks match and no months phrase with
\* a qualifier, gets the months range gte = now-{30n}d of the first such n.
C29_LowercaseMGivesMonthsUnlessQualified ==
    ( /\ Returned("parse_relative_time")
      /\ OnlyMonthsCanMatch(call.text)
      /\ MRuns(call.text) # {}
      /\ \A k \in MatchingEntries(call.text) : ~HasQualifier(k) )
    => LET runs  == MRuns(call.text)
           first == CHOOSE r \in runs : \A q \in runs : r[1] <= q[1]
       IN  result = MonthsRange(ToInt(SubSeq(call.text, first[1], first[2])))

\* "5 minutes" was read as five months
C29_Witness ==
    /\ Returned("parse_relative_time")
    /\ call.text = <<"5"," ","m","i","n","u","t","e","s">>
    /\ result # None
    /\ result[1].gte = "now-150d"

-----------------------------------------------------------------------------
\* both arguments are strings that satisfy some format
BothParse == /\ call.start_time \notin NonStrArgs /\ call.end_time \notin NonStrArgs
             /\ FirstFormat(call.start_time) # 0 /\ FirstFormat(call.end_time) # 0

\* C28: parse_absolute_time checks no order: for two strings it returns a
\* range exactly when each of them parses, and when the parsed start is
\* later than the parsed end the range is returned all the same, gte
\* spelling the later instant and lte the earlier one.
C28_NoOrderingCheck ==
    ( /\ Returned("parse_absolute_time")
      /\ call.start_time \notin NonStrArgs /\ call.end_time \notin NonStrArgs )
    => /\ (result # None) <=> BothParse
       /\ BothParse =>
            LET start_dt == ValueUnder(call.start_time,
                                FirstFormat(call.start_time), call.now_year)
                end_dt   == ValueUnder(call.end_time,
                                FirstFormat(call.end_time), call.now_year)
            IN  ~NotLater(start_dt, end_dt) =>
                  /\ result # None
                  /\ FromIso(result[1].gte) = start_dt
                  /\ FromIso(result[1].lte) = end_dt
                  /\ ~NotLater(FromIso(result[1].gte), FromIso(result[1].lte))

\* from 10 July to 1 July of the same year: a range, and gte is the later
C28_Witness ==
    /\ Returned("parse_absolute_time")
    /\ call.start_time = <<"2","0","2","5","-","0","7","-","1","0">>
    /\ call.end_time = <<"2","0","2","5","-","0","7","-","0","1">>
    /\ result # None
    /\ result[1].gte = "2025-07-10T00:00:00"
    /\ result[1].lte = "2025-07-01T00:00:00"

-----------------------------------------------------------------------------
\* the string satisfies first a format that begins with the year
YearWritten(s) == FirstFormat(s) # 0 /\ formats[FirstFormat(s)][1] = "Y"

\* the four digits the string begins with
WrittenYear(s) == ToInt(SubSeq(Strip(s), 1, 4))

\* the year a bound must carry for a string with a written year
ExpectedYear(s, now_year) ==
    IF WrittenYear(s) = 1900 THEN now_year ELSE WrittenYear(s)

====
